---- MODULE Spec2Model ----
(***************************************************************************)
(* A model of the user memory store of openclue (UserMemoryStore): the     *)
(* persisted long-term memory list, the inverted word index and tag index  *)
(* kept beside it, and the search result cache.                            *)
(*                                                                         *)
(* Strings are sequences of one-character strings, so that lower-casing,   *)
(* splitting on /\W+/ and String.includes are computed, not assumed.       *)
(* A JavaScript Set is a sequence without repetitions in insertion order;  *)
(* a JavaScript Map is a function whose domain is the set of its keys.     *)
(* The persisted document store hands out a fresh copy on every get and    *)
(* keeps only what set() writes.                                           *)
(***************************************************************************)
EXTENDS Integers, Sequences, FiniteSets, TLC

\* ------------------------------------------------------------------ bounds
MaxIds == 3          \* ids that generateId hands out in one behaviour
MaxSteps == 2        \* handler calls in one behaviour
MaxTime == 3         \* the clock stops here; it starts at 1
\* memorySettings.maxMemoryEntries, 1000 in the defaults, scaled down
maxMemoryEntries == 2
\* memorySettings.maxHistoryEntries, 10000 in the defaults, scaled down
maxHistoryEntries == 4
MaxActions == 5      \* recordAction calls in one behaviour of SpecActions
MaxCalls == 2        \* debounced searches in one behaviour of SpecHook
MaxRuns == 2         \* automatic organizations in one behaviour of SpecHook
MaxHours == 1         \* hours that pass in one behaviour of SpecHook
MaxOrganized == 4     \* memories in the store of SpecOrganize
\* one clock tick is the cache life time: CACHE_DURATION = 5 * 60 * 1000 ms
CACHE_DURATION == 1

\* ----------------------------------------------------------------- strings
UpperLetters ==
  <<"A", "B", "C", "D", "E", "F", "G", "H", "I", "J", "K", "L", "M",
    "N", "O", "P", "Q", "R", "S", "T", "U", "V", "W", "X", "Y", "Z">>
LowerLetters ==
  <<"a", "b", "c", "d", "e", "f", "g", "h", "i", "j", "k", "l", "m",
    "n", "o", "p", "q", "r", "s", "t", "u", "v", "w", "x", "y", "z">>
UpperChars == {UpperLetters[i] : i \in DOMAIN UpperLetters}
LowerChars == {LowerLetters[i] : i \in DOMAIN LowerLetters}
\* \w of a JavaScript regular expression without the u flag: [A-Za-z0-9_]
WordChars ==
  UpperChars \cup LowerChars \cup {"0", "1", "2", "3", "4", "5", "6", "7", "8", "9", "_"}

isWordChar(c) == c \in WordChars

toLowerChar(c) ==
  IF c \in UpperChars
  THEN LowerLetters[CHOOSE i \in DOMAIN UpperLetters : UpperLetters[i] = c]
  ELSE c

toLowerCase(s) == [i \in 1..Len(s) |-> toLowerChar(s[i])]

\* String.prototype.includes
includes(hay, needle) ==
  \E i \in 0..(Len(hay) - Len(needle)) :
     SubSeq(hay, i + 1, i + Len(needle)) = needle

RECURSIVE splitFrom(_, _, _, _)
splitFrom(s, i, cur, acc) ==
  IF i > Len(s) THEN Append(acc, cur)
  ELSE IF isWordChar(s[i]) THEN splitFrom(s, i + 1, Append(cur, s[i]), acc)
  ELSE IF i > 1 /\ ~isWordChar(s[i - 1]) THEN splitFrom(s, i + 1, cur, acc)
  ELSE splitFrom(s, i + 1, <<>>, Append(acc, cur))

\* s.split(/\W+/): the pieces between maximal runs of non-word characters,
\* an empty piece at either end when s starts or ends with a separator
split(s) == splitFrom(s, 1, <<>>, <<>>)

\* text.split(/\W+/).filter((word) => word.length > 1)
tokens(text) == SelectSeq(split(text), LAMBDA w : Len(w) > 1)

\* the words addToSearchIndex and removeFromSearchIndex derive from a memory
memoryWords(memory) ==
  tokens(toLowerCase(memory.title \o <<" ">> \o memory.content))

Range(s) == {s[i] : i \in 1..Len(s)}

\* ------------------------------------------------------ Set and Map values
SetAdd(s, x) == IF x \in Range(s) THEN s ELSE Append(s, x)
SetDelete(s, x) == SelectSeq(s, LAMBDA y : y # x)

EmptyMap == [k \in {} |-> <<>>]
MapDelete(m, k) == [j \in (DOMAIN m) \ {k} |-> m[j]]

\* if (!map.has(key)) map.set(key, new Set()); map.get(key).add(id)
MapSetAdd(m, k, id) ==
  IF k \in DOMAIN m THEN [m EXCEPT ![k] = SetAdd(@, id)]
  ELSE [j \in (DOMAIN m) \cup {k} |-> IF j = k THEN <<id>> ELSE m[j]]

\* set.delete(id) without the map.delete(key) of an emptied Set
MapSetDeleteKeepEmpty(m, k, id) ==
  IF k \in DOMAIN m THEN [m EXCEPT ![k] = SetDelete(@, id)] ELSE m

\* const set = map.get(key); if (set) { set.delete(id); if (set.size === 0) map.delete(key) }
MapSetDelete(m, k, id) ==
  IF k \in DOMAIN m
  THEN IF SetDelete(m[k], id) = <<>> THEN MapDelete(m, k)
       ELSE [m EXCEPT ![k] = SetDelete(@, id)]
  ELSE m

RECURSIVE addAll(_, _, _)
addAll(m, keys, id) ==
  IF keys = <<>> THEN m ELSE addAll(MapSetAdd(m, Head(keys), id), Tail(keys), id)

RECURSIVE deleteAll(_, _, _)
deleteAll(m, keys, id) ==
  IF keys = <<>> THEN m
  ELSE deleteAll(MapSetDelete(m, Head(keys), id), Tail(keys), id)

normalizedTags(memory) == [i \in 1..Len(memory.tags) |-> toLowerCase(memory.tags[i])]

\* An index pair is [searchIndex |-> word map, tagIndex |-> tag map].
addToSearchIndex(I, memory) ==
  [searchIndex |-> addAll(I.searchIndex, memoryWords(memory), memory.id),
   tagIndex |-> addAll(I.tagIndex, normalizedTags(memory), memory.id)]

removeFromSearchIndex(I, memory) ==
  [searchIndex |-> deleteAll(I.searchIndex, memoryWords(memory), memory.id),
   tagIndex |-> deleteAll(I.tagIndex, normalizedTags(memory), memory.id)]

RECURSIVE addMemories(_, _)
addMemories(I, memories) ==
  IF memories = <<>> THEN I
  ELSE addMemories(addToSearchIndex(I, Head(memories)), Tail(memories))

RECURSIVE removeMemories(_, _)
removeMemories(I, memories) ==
  IF memories = <<>> THEN I
  ELSE removeMemories(removeFromSearchIndex(I, Head(memories)), Tail(memories))

EmptyIndex == [searchIndex |-> EmptyMap, tagIndex |-> EmptyMap]

\* an index of arrays that is never cleared: every build pushes every id again
RECURSIVE pushAll(_, _, _)
pushAll(m, keys, id) ==
  IF keys = <<>> THEN m
  ELSE pushAll([j \in (DOMAIN m) \cup {Head(keys)} |->
                  IF j = Head(keys)
                  THEN (IF j \in DOMAIN m THEN Append(m[j], id) ELSE <<id>>)
                  ELSE m[j]],
               Tail(keys), id)

RECURSIVE buildSearchIndexAppending(_, _)
buildSearchIndexAppending(I, memories) ==
  IF memories = <<>> THEN I
  ELSE buildSearchIndexAppending(
         [searchIndex |-> pushAll(I.searchIndex, memoryWords(Head(memories)),
                                  Head(memories).id),
          tagIndex |-> pushAll(I.tagIndex, normalizedTags(Head(memories)),
                               Head(memories).id)],
         Tail(memories))

\* clear both maps, then add every stored memory in store order
buildSearchIndex(I, memories) == addMemories(EmptyIndex, memories)

\* ------------------------------------------------------------------ sorting
\* relevanceScore is kept in tenths (0..10 for 0.0..1.0)
evictionKey(m) == m.relevanceScore * m.accessCount

\* the comparator with its operands exchanged
evictionBeforeDescending(a, b) == evictionKey(a) > evictionKey(b)

\* (a, b) => a.relevanceScore*a.accessCount - b.relevanceScore*b.accessCount
evictionBefore(a, b) == evictionKey(a) < evictionKey(b)

\* relevanceScore * (1 + accessCount * 0.1), times 100
accessWeighted(m) == m.relevanceScore * (10 + m.accessCount)

\* scoreB - scoreA < 0 with score = relevanceScore * (1 + accessCount*0.1)
\* * exp(-daysSinceAccess/30). Date.now() cancels out of the comparison; two
\* different weighted scores of this model differ by a factor above 1.01,
\* which the decay factor exp(dt/30 days) does not reach within the hour a
\* behaviour of this model lasts, so lastAccessed decides between equal
\* weights only.
relevanceBefore(a, b) ==
  IF accessWeighted(a) # accessWeighted(b)
  THEN accessWeighted(a) > accessWeighted(b)
  ELSE accessWeighted(a) > 0 /\ a.lastAccessed > b.lastAccessed

dateBefore(a, b) == a.updatedAt > b.updatedAt
accessBefore(a, b) == a.accessCount > b.accessCount
\* (a, b) => b.score - a.score of performIndexedSearch
scoreBefore(a, b) == a.score > b.score

\* "the comparator of this sort puts a before b"
before(comparator, a, b) ==
  CASE comparator = "eviction" -> evictionBefore(a, b)
    [] comparator = "date" -> dateBefore(a, b)
    [] comparator = "access" -> accessBefore(a, b)
    [] comparator = "score" -> scoreBefore(a, b)
    [] comparator = "similarity" -> a.similarity > b.similarity
    [] comparator = "relatedness" -> a.relatedness > b.relatedness
    [] comparator = "accessAscending" -> a.accessCount < b.accessCount
    [] OTHER -> relevanceBefore(a, b)

\* Array.prototype.sort is stable: elements the comparator does not order
\* keep their order.
stableSort(s, comparator) ==
  LET rank(i) == Cardinality({j \in 1..Len(s) :
                     /\ j # i
                     /\ \/ before(comparator, s[j], s[i])
                        \/ (~before(comparator, s[i], s[j]) /\ j < i)}) + 1
  IN [r \in 1..Len(s) |-> s[CHOOSE i \in 1..Len(s) : rank(i) = r]]

sortResults(results, sortBy) ==
  CASE sortBy = "date" -> stableSort(results, "date")
    [] sortBy = "access" -> stableSort(results, "access")
    [] OTHER -> stableSort(results, "relevance")

\* ------------------------------------------------------------------- search
\* String.prototype.trim for the blank the model's strings use
RECURSIVE trimLeft(_)
trimLeft(s) == IF s # <<>> /\ Head(s) = " " THEN trimLeft(Tail(s)) ELSE s
RECURSIVE trimRight(_)
trimRight(s) ==
  IF s # <<>> /\ s[Len(s)] = " " THEN trimRight(SubSeq(s, 1, Len(s) - 1)) ELSE s
trim(s) == trimRight(trimLeft(s))

NoDateRange == [has |-> FALSE, start |-> 0, end |-> 0]
\* filters absent: every optional field in its absent form
NoFilters ==
  [type |-> <<>>, tags |-> <<>>, dateRange |-> NoDateRange,
   minRelevance |-> -1, sortBy |-> "relevance", useSemantic |-> FALSE]

\* filters whose dateRange is taken as the span between its two ends
applyFiltersEitherOrder(memories, f) ==
  SelectSeq(memories, LAMBDA m :
    /\ Len(f.type) > 0 => m.type \in Range(f.type)
    /\ Len(f.tags) > 0 =>
          \E t \in Range(f.tags) : \E mTag \in Range(m.tags) :
             includes(toLowerCase(mTag), toLowerCase(t))
    /\ f.dateRange.has =>
          \/ m.createdAt >= f.dateRange.start /\ m.createdAt <= f.dateRange.end
          \/ m.createdAt >= f.dateRange.end /\ m.createdAt <= f.dateRange.start
    /\ f.minRelevance # -1 => m.relevanceScore >= f.minRelevance)

applyFilters(memories, f) ==
  LET byType == IF Len(f.type) > 0
                THEN SelectSeq(memories, LAMBDA m : m.type \in Range(f.type))
                ELSE memories
      byTags == IF Len(f.tags) > 0
                THEN SelectSeq(byType, LAMBDA m :
                       \E t \in Range(f.tags) : \E mTag \in Range(m.tags) :
                          includes(toLowerCase(mTag), toLowerCase(t)))
                ELSE byType
      byDate == IF f.dateRange.has
                THEN SelectSeq(byTags, LAMBDA m :
                       m.createdAt >= f.dateRange.start /\ m.createdAt <= f.dateRange.end)
                ELSE byTags
  IN IF f.minRelevance # -1
     THEN SelectSeq(byDate, LAMBDA m : m.relevanceScore >= f.minRelevance)
     ELSE byDate

RECURSIVE setAddAll(_, _)
setAddAll(s, xs) == IF xs = <<>> THEN s ELSE setAddAll(SetAdd(s, Head(xs)), Tail(xs))

\* words.forEach(word => { const hit = map.get(word); if (hit) hit.forEach(id => acc.add(id)) })
RECURSIVE collectIds(_, _, _)
collectIds(acc, map, words) ==
  IF words = <<>> THEN acc
  ELSE collectIds(IF Head(words) \in DOMAIN map
                  THEN setAddAll(acc, map[Head(words)]) ELSE acc,
                  map, Tail(words))

RECURSIVE sumSeq(_)
sumSeq(s) == IF s = <<>> THEN 0 ELSE Head(s) + sumSeq(Tail(s))

\* title hit 3, content hit 2, 1 for every tag that contains the word
lexicalScore(memory, queryWords) ==
  sumSeq([i \in 1..Len(queryWords) |->
     (IF includes(toLowerCase(memory.title), queryWords[i]) THEN 3 ELSE 0)
   + (IF includes(toLowerCase(memory.content), queryWords[i]) THEN 2 ELSE 0)
   + Cardinality({t \in 1..Len(memory.tags) :
                     includes(toLowerCase(memory.tags[t]), queryWords[i])})])

\* new Map(memories.map(m => [m.id, m])).get(id): the last memory with the id
hasId(memories, id) == \E i \in 1..Len(memories) : memories[i].id = id
lastWithId(memories, id) ==
  LET last == CHOOSE i \in 1..Len(memories) :
                 /\ memories[i].id = id
                 /\ \A j \in (i + 1)..Len(memories) : memories[j].id # id
  IN memories[last]

performIndexedSearch(I, query, memories) ==
  LET queryWords == tokens(query)
      candidateIds == collectIds(collectIds(<<>>, I.searchIndex, queryWords),
                                 I.tagIndex, queryWords)
      found == SelectSeq(candidateIds, LAMBDA id : hasId(memories, id))
      candidates == [i \in 1..Len(found) |-> lastWithId(memories, found[i])]
      items == [i \in 1..Len(candidates) |->
                  [memory |-> candidates[i],
                   score |-> lexicalScore(candidates[i], queryWords)]]
      sorted == stableSort(SelectSeq(items, LAMBDA item : item.score > 0), "score")
  IN [i \in 1..Len(sorted) |-> sorted[i].memory]

\* the part of searchMemories after the cache check, up to slice(0, limit)
computeResults(I, memories, query, limit, f) ==
  LET queryLower == trim(toLowerCase(query))
      filteredMemories == applyFilters(memories, f)
      results == IF queryLower = <<>> THEN filteredMemories
                 ELSE performIndexedSearch(I, queryLower, filteredMemories)
      sorted == sortResults(results, f.sortBy)
  IN SubSeq(sorted, 1, IF limit < Len(sorted) THEN limit ELSE Len(sorted))

\* memory.accessCount++; memory.lastAccessed = Date.now() on the returned objects
touch(results, t) ==
  [i \in 1..Len(results) |->
     [results[i] EXCEPT !.accessCount = @ + 1, !.lastAccessed = t]]

\* clearSearchCache left out
keepSearchCache(cache) == cache

\* this.searchCache.clear()
clearSearchCache(cache) == [k \in {} |-> <<>>]

cacheKey(query, limit, f) == [query |-> query, limit |-> limit, filters |-> f]

cleanExpiredCache(cache, t) ==
  [k \in {j \in DOMAIN cache : ~(t - cache[j].timestamp > CACHE_DURATION)} |-> cache[k]]

cacheHit(cache, key, t) ==
  key \in DOMAIN cache /\ t - cache[key].timestamp < CACHE_DURATION

MapPut(m, k, v) == [j \in (DOMAIN m) \cup {k} |-> IF j = k THEN v ELSE m[j]]

Ids(memories) == [i \in 1..Len(memories) |-> memories[i].id]

\* the searchCache searchMemories leaves behind
cacheAfterSearch(cache, I, memories, query, limit, f, t) ==
  LET cleaned == cleanExpiredCache(cache, t)
      key == cacheKey(query, limit, f)
  IN IF cacheHit(cleaned, key, t) THEN cleaned
     ELSE MapPut(cleaned, key,
            [results |-> touch(computeResults(I, memories, query, limit, f), t),
             timestamp |-> t])

\* what searchMemories returns: the cached page, or the page just computed
searchMemories(cache, I, memories, query, limit, f, t) ==
  LET cleaned == cleanExpiredCache(cache, t)
      key == cacheKey(query, limit, f)
  IN IF cacheHit(cleaned, key, t) THEN cleaned[key].results
     ELSE touch(computeResults(I, memories, query, limit, f), t)

\* ------------------------------------------------------------------- inputs
S_Ab == <<"A", "b">>
S_ab == <<"a", "b">>
S_abc == <<"a", "b", "c">>
S_cd == <<"c", "d">>
S_ab_cd == <<"a", "b", " ", "c", "d">>
S_AB == <<"A", "B">>
S_empty == <<>>

\* the fields a caller passes to saveMemory
SaveInputs ==
  { [type |-> "note", title |-> S_Ab, content |-> S_cd,
     tags |-> <<S_Ab>>, relevanceScore |-> 5],
    [type |-> "project", title |-> S_abc, content |-> S_ab_cd,
     tags |-> <<S_cd, S_ab>>, relevanceScore |-> 10],
    [type |-> "note", title |-> S_cd, content |-> S_empty,
     tags |-> <<>>, relevanceScore |-> 0],
    [type |-> "knowledge", title |-> S_abc, content |-> S_empty,
     tags |-> <<S_AB, S_ab>>, relevanceScore |-> 10] }

\* the updates objects the signature of updateMemory admits
UpdateInputs ==
  { [title |-> S_cd],
    [content |-> S_ab],
    [tags |-> <<S_cd>>],
    [accessCount |-> 2, relevanceScore |-> 10] }

Queries == {S_empty, S_ab, S_AB \o <<" ">> \o S_cd}
Limits == {1, 10}
Filters ==
  { NoFilters,
    [NoFilters EXCEPT !.type = <<"note">>],
    [NoFilters EXCEPT !.tags = <<S_AB>>],
    [NoFilters EXCEPT !.dateRange = [has |-> TRUE, start |-> 1, end |-> 2]],
    [NoFilters EXCEPT !.minRelevance = 5],
    [NoFilters EXCEPT !.sortBy = "access"],
    [NoFilters EXCEPT !.sortBy = "date"] }

\* the (query, limit, filters) the handlers of a behaviour are called with
SearchInputs ==
  { <<S_empty, 10, NoFilters>>,
    <<S_ab, 10, NoFilters>>,
    <<S_ab, 1, NoFilters>>,
    <<S_AB \o <<" ">> \o S_cd, 10, [NoFilters EXCEPT !.sortBy = "access"]>>,
    <<S_ab, 10, [NoFilters EXCEPT !.type = <<"note">>]>>,
    <<S_empty, 10, [NoFilters EXCEPT !.tags = <<S_AB>>]>>,
    <<S_ab, 10, [NoFilters EXCEPT !.dateRange = [has |-> TRUE, start |-> 1, end |-> 2]]>>,
    <<S_empty, 1, [NoFilters EXCEPT !.minRelevance = 5]>>,
    <<S_ab, 10, [NoFilters EXCEPT !.sortBy = "date"]>>,
    <<S_empty, 10, [NoFilters EXCEPT !.dateRange = [has |-> TRUE, start |-> 2, end |-> 0]]>>,
    <<S_ab, 10, [NoFilters EXCEPT !.dateRange = [has |-> TRUE, start |-> 3, end |-> 0],
                                  !.type = <<"note">>, !.sortBy = "date"]>> }

TagInputs == {S_ab, S_cd}

\* a memory an earlier run of the program left in the persisted store; its
\* id is one generateId does not hand out again
StoredMemory ==
  [id |-> 0, createdAt |-> 0, updatedAt |-> 0, type |-> "note", title |-> S_ab,
   content |-> S_cd, tags |-> <<S_ab>>, relevanceScore |-> 5, accessCount |-> 1,
   lastAccessed |-> 0]

\* what the constructor finds in the persisted store
InitialStores == {<<>>, <<StoredMemory>>}

\* the snapshots importUserData is called with, besides the last export
ImportInputs == {[longTermMemory |-> <<StoredMemory>>]}

\* what a caller passes to recordAction; applicationName <<>> is "absent"
S_code == <<"c", "o", "d", "e">>
ActionInputs ==
  { [actionType |-> "app_switch", applicationName |-> S_code],
    [actionType |-> "query", applicationName |-> S_empty] }

\* limit: number = 10, which truncates no result list of the model
NoLimit == 10

\* -------------------------------------------------------------------- state
VARIABLES
  longTermMemory,   \* the persisted "longTermMemory" list
  actionHistory,    \* the persisted "actionHistory" list
  appUsageStats,    \* the persisted "appUsageStats" record
  behaviorPatterns, \* the persisted "behaviorPatterns" list
  searchIndex,      \* word -> Set of memory ids
  tagIndex,         \* lower-cased tag -> Set of memory ids
  searchCache,      \* cache key -> [results, timestamp]
  exported,         \* the last value exportUserData returned
  now,              \* Date.now(), in ticks
  nextId,           \* the next id generateId will return
  steps,            \* handler calls so far
  lastOp,           \* the last handler call and its arguments
  ret,              \* what the last handler call returned
  removed,          \* the records the last saveMemory evicted
  frame,            \* the statements the running handler has yet to execute
  hook              \* the renderer: the mounted useUserMemory hooks, localStorage

vars == <<longTermMemory, actionHistory, appUsageStats, behaviorPatterns,
          searchIndex, tagIndex, searchCache, exported, now, nextId, steps,
          lastOp, ret, removed, frame, hook>>

Index == [searchIndex |-> searchIndex, tagIndex |-> tagIndex]

\* threw: the call ended with an exception, which the handler passes on
NoReturn == [ok |-> TRUE, results |-> <<>>, stats |-> EmptyMap, threw |-> FALSE]
Returned(ok) == [NoReturn EXCEPT !.ok = ok]

\* the users of the hook (MemoryPanel.tsx mounts it in two components)
Users == 1..2

\* organizationInsights before organizeMemories has run
NoInsights == [duplicates |-> <<>>, clusters |-> <<>>, archiveCandidates |-> <<>>]
\* what performAutoOrganization returns, before it has run
NoOrganization == [merged |-> 0, archived |-> 0, clustered |-> 0]

\* the renderer before any component has mounted; localStorage holds the
\* stamp of the last organization as <<t>>, <<>> for no item
NoHook(stamp) ==
  [mounted |-> [u \in Users |-> FALSE],
   organizing |-> [u \in Users |-> FALSE],
   capturedNow |-> [u \in Users |-> 0],
   lastCheck |-> [u \in Users |-> 0],
   lastMemoryOrganization |-> stamp,
   started |-> <<>>,
   searchTimeoutRef |-> [u \in Users |-> 0],
   timers |-> {},
   calls |-> <<>>,
   organizationInsights |-> NoInsights,
   organizationResult |-> NoOrganization,
   \* the suggestion service: its goals and behaviorPatterns Maps in
   \* insertion order, the profile (<<>> for null), the history, the ids
   \* generateId has handed out, the candidates of the last call unranked
   \* and ranked, the advancedSuggestions state and what every call returned
   goals |-> <<>>,
   patterns |-> <<>>,
   learningProfile |-> <<>>,
   suggestionHistory |-> <<>>,
   serviceIds |-> 1,
   candidates |-> <<>>,
   ranked |-> <<>>,
   advancedSuggestions |-> <<>>,
   generated |-> <<>>]

\* no handler is running
IdleFrame == [todo |-> <<>>, old |-> <<>>, new |-> <<>>, memories |-> <<>>]

\* a handler that yields between its statements, as one with an await would
startsAnyTime == TRUE

\* The handlers are synchronous functions, so the event loop starts the next
\* handler or timer callback only when the running one has returned.
canStart == frame.todo = <<>>
Op(name) == [op |-> name, id |-> -1, hit |-> FALSE]

\* the document exportUserData returns: (this.store as any).store
storeDocument ==
  [longTermMemory |-> longTermMemory, actionHistory |-> actionHistory,
   appUsageStats |-> appUsageStats, behaviorPatterns |-> behaviorPatterns]

DefaultDocument ==
  [longTermMemory |-> <<>>, actionHistory |-> <<>>,
   appUsageStats |-> EmptyMap, behaviorPatterns |-> <<>>]

\* the constructor: open the store, buildSearchIndex()
Init ==
  /\ longTermMemory \in InitialStores
  /\ searchIndex = buildSearchIndex(EmptyIndex, longTermMemory).searchIndex
  /\ tagIndex = buildSearchIndex(EmptyIndex, longTermMemory).tagIndex
  /\ actionHistory = <<>>
  /\ appUsageStats = EmptyMap
  /\ behaviorPatterns = <<>>
  /\ searchCache = EmptyMap
  /\ exported = DefaultDocument
  /\ now = 1
  /\ nextId = 1
  /\ steps = 0
  /\ lastOp = Op("constructor")
  /\ ret = NoReturn
  /\ removed = <<>>
  /\ frame = IdleFrame
  /\ hook = NoHook(<<>>)

\* a handler call: the call counter and the record of the call
Begin(op) == canStart /\ steps < MaxSteps /\ steps' = steps + 1 /\ lastOp' = op

\* a handler call that runs from its first statement to its return
Call(op) == Begin(op) /\ UNCHANGED <<frame, hook>>

Tick ==
  /\ now < MaxTime
  /\ now' = now + 1
  /\ UNCHANGED <<longTermMemory, actionHistory, appUsageStats, behaviorPatterns,
                 searchIndex, tagIndex, searchCache, exported,
                 nextId, steps, lastOp, ret, removed, frame, hook>>

\* ---------------------------------------------------------------- saveMemory
newEntry(fields, id, t) ==
  [id |-> id, createdAt |-> t, updatedAt |-> t, type |-> fields.type,
   title |-> fields.title, content |-> fields.content, tags |-> fields.tags,
   relevanceScore |-> fields.relevanceScore, accessCount |-> 0, lastAccessed |-> t]

\* memories.sort(by eviction key); memories.splice(0, memories.length - maxEntries)
evictedBySave(memories, maxEntries) ==
  IF Len(memories) > maxEntries
  THEN SubSeq(stableSort(memories, "eviction"), 1, Len(memories) - maxEntries)
  ELSE <<>>

keptBySave(memories, maxEntries) ==
  IF Len(memories) > maxEntries
  THEN SubSeq(stableSort(memories, "eviction"),
              Len(memories) - maxEntries + 1, Len(memories))
  ELSE memories

SaveMemory(fields) ==
  LET entry == newEntry(fields, nextId, now)
      memories == Append(longTermMemory, entry)
      gone == evictedBySave(memories, maxMemoryEntries)
      I == removeMemories(addToSearchIndex(Index, entry), gone)
  IN /\ nextId <= MaxIds
     /\ Call([Op("saveMemory") EXCEPT !.id = nextId])
     /\ nextId' = nextId + 1
     /\ longTermMemory' = keptBySave(memories, maxMemoryEntries)
     /\ searchIndex' = I.searchIndex
     /\ tagIndex' = I.tagIndex
     /\ searchCache' = clearSearchCache(searchCache)
     /\ removed' = gone
     /\ ret' = NoReturn
     /\ UNCHANGED <<actionHistory, appUsageStats, behaviorPatterns, exported, now>>

\* ------------------------------------------------------------ searchMemories
searchOp(query, limit, f) ==
  [Op("searchMemories") EXCEPT
     !.hit = cacheHit(cleanExpiredCache(searchCache, now), cacheKey(query, limit, f), now)]

searchMemoriesCall(query, limit, f) ==
  /\ searchCache' = cacheAfterSearch(searchCache, Index, longTermMemory,
                                     query, limit, f, now)
  /\ ret' = [NoReturn EXCEPT
               !.results = searchMemories(searchCache, Index, longTermMemory,
                                          query, limit, f, now)]
  /\ UNCHANGED <<longTermMemory, actionHistory, appUsageStats, behaviorPatterns,
                 searchIndex, tagIndex, exported, now, nextId, removed>>

SearchMemories(query, limit, f) ==
  /\ Call(searchOp(query, limit, f))
  /\ searchMemoriesCall(query, limit, f)

\* -------------------------------------------------- updateMemory, deleteMemory
\* -1 used as an index counts from the end: splice(-1, 1), at(-1)
findIndexFromEnd(memories, id) ==
  IF hasId(memories, id)
  THEN CHOOSE i \in 1..Len(memories) :
         memories[i].id = id /\ \A j \in 1..(i - 1) : memories[j].id # id
  ELSE Len(memories)

\* memories.findIndex((m) => m.id === id), 0 when there is none
findIndex(memories, id) ==
  IF hasId(memories, id)
  THEN CHOOSE i \in 1..Len(memories) :
         memories[i].id = id /\ \A j \in 1..(i - 1) : memories[j].id # id
  ELSE 0

\* { ...memory, ...updates, updatedAt: Date.now() }
spread(memory, updates, t) ==
  [f \in (DOMAIN memory) \cup (DOMAIN updates) |->
     IF f = "updatedAt" THEN t
     ELSE IF f \in DOMAIN updates THEN updates[f] ELSE memory[f]]

UpdateMemory(id, updates) ==
  LET memoryIndex == findIndex(longTermMemory, id)
      oldMemory == longTermMemory[memoryIndex]
      newMemory == spread(oldMemory, updates, now)
      I == addToSearchIndex(removeFromSearchIndex(Index, oldMemory), newMemory)
  IN /\ Call([Op("updateMemory") EXCEPT !.id = id])
     /\ IF memoryIndex = 0
        THEN /\ ret' = Returned(FALSE)
             /\ UNCHANGED <<longTermMemory, searchIndex, tagIndex, searchCache>>
        ELSE /\ longTermMemory' = [longTermMemory EXCEPT ![memoryIndex] = newMemory]
             /\ searchIndex' = I.searchIndex
             /\ tagIndex' = I.tagIndex
             /\ searchCache' = clearSearchCache(searchCache)
             /\ ret' = Returned(TRUE)
     /\ UNCHANGED <<actionHistory, appUsageStats, behaviorPatterns,
                    exported, now, nextId, removed>>

\* memories.splice(i, 1)
splice1(memories, i) ==
  SubSeq(memories, 1, i - 1) \o SubSeq(memories, i + 1, Len(memories))

DeleteMemory(id) ==
  LET memoryIndex == findIndex(longTermMemory, id)
      I == removeFromSearchIndex(Index, longTermMemory[memoryIndex])
  IN /\ Call([Op("deleteMemory") EXCEPT !.id = id])
     /\ IF memoryIndex = 0
        THEN /\ ret' = Returned(FALSE)
             /\ UNCHANGED <<longTermMemory, searchIndex, tagIndex, searchCache>>
        ELSE /\ longTermMemory' = splice1(longTermMemory, memoryIndex)
             /\ searchIndex' = I.searchIndex
             /\ tagIndex' = I.tagIndex
             /\ searchCache' = clearSearchCache(searchCache)
             /\ ret' = Returned(TRUE)
     /\ UNCHANGED <<actionHistory, appUsageStats, behaviorPatterns,
                    exported, now, nextId, removed>>

\* --------------------------------------------------------- mergeTags, removeTag
\* tags.findIndex((tag) => tag.toLowerCase() === oldTag.toLowerCase())
findTag(tags, tag) ==
  IF \E i \in 1..Len(tags) : toLowerCase(tags[i]) = toLowerCase(tag)
  THEN CHOOSE i \in 1..Len(tags) :
         /\ toLowerCase(tags[i]) = toLowerCase(tag)
         /\ \A j \in 1..(i - 1) : toLowerCase(tags[j]) # toLowerCase(tag)
  ELSE 0

mergedMemory(memory, oldTag, newTag, t) ==
  IF findTag(memory.tags, oldTag) # 0
  THEN [memory EXCEPT !.tags[findTag(memory.tags, oldTag)] = newTag, !.updatedAt = t]
  ELSE memory

MergeTags(oldTag, newTag) ==
  LET memories == [i \in 1..Len(longTermMemory) |->
                     mergedMemory(longTermMemory[i], oldTag, newTag, now)]
      updated == \E i \in 1..Len(longTermMemory) :
                    findTag(longTermMemory[i].tags, oldTag) # 0
      I == buildSearchIndex(Index, memories)
  IN /\ Call(Op("mergeTags"))
     /\ IF updated
        THEN /\ longTermMemory' = memories
             /\ searchIndex' = I.searchIndex
             /\ tagIndex' = I.tagIndex
             /\ searchCache' = clearSearchCache(searchCache)
        ELSE UNCHANGED <<longTermMemory, searchIndex, tagIndex, searchCache>>
     /\ ret' = Returned(updated)
     /\ UNCHANGED <<actionHistory, appUsageStats, behaviorPatterns,
                    exported, now, nextId, removed>>

withoutTag(memory, tagToRemove, t) ==
  LET tags == SelectSeq(memory.tags,
                LAMBDA tag : toLowerCase(tag) # toLowerCase(tagToRemove))
  IN IF Len(tags) # Len(memory.tags)
     THEN [memory EXCEPT !.tags = tags, !.updatedAt = t]
     ELSE memory

RemoveTag(tagToRemove) ==
  LET memories == [i \in 1..Len(longTermMemory) |->
                     withoutTag(longTermMemory[i], tagToRemove, now)]
      updated == \E i \in 1..Len(longTermMemory) :
                    Len(memories[i].tags) # Len(longTermMemory[i].tags)
      I == buildSearchIndex(Index, memories)
  IN /\ Call(Op("removeTag"))
     /\ IF updated
        THEN /\ longTermMemory' = memories
             /\ searchIndex' = I.searchIndex
             /\ tagIndex' = I.tagIndex
             /\ searchCache' = clearSearchCache(searchCache)
        ELSE UNCHANGED <<longTermMemory, searchIndex, tagIndex, searchCache>>
     /\ ret' = Returned(updated)
     /\ UNCHANGED <<actionHistory, appUsageStats, behaviorPatterns,
                    exported, now, nextId, removed>>

\* ------------------------------------------------ exportUserData, importUserData
\* Object.entries(data).forEach(([key, value]) => store.set(key, value))
imported(data, key, current) == IF key \in DOMAIN data THEN data[key] ELSE current

\* An engine is the store document with the index pair and the cache.
\* importUserData: set every key of data, buildSearchIndex(), clearSearchCache()
importUserData(engine, data) ==
  LET document == [key \in DOMAIN engine.document |->
                     imported(data, key, engine.document[key])]
  IN [document |-> document,
      index |-> buildSearchIndex(engine.index, document.longTermMemory),
      cache |-> clearSearchCache(engine.cache)]

\* this.store.store
exportUserData(engine) == engine.document

\* the engine a constructor builds over an empty persisted store
EmptyEngine ==
  [document |-> DefaultDocument,
   index |-> buildSearchIndex(EmptyIndex, DefaultDocument.longTermMemory),
   cache |-> EmptyMap]

Engine == [document |-> storeDocument, index |-> Index, cache |-> searchCache]

ExportUserData ==
  /\ Call(Op("exportUserData"))
  /\ exported' = exportUserData(Engine)
  /\ ret' = NoReturn
  /\ UNCHANGED <<longTermMemory, actionHistory, appUsageStats, behaviorPatterns,
                 searchIndex, tagIndex, searchCache, now, nextId, removed>>

ImportUserData(data) ==
  LET after == importUserData(Engine, data)
  IN /\ Call(Op("importUserData"))
     /\ longTermMemory' = after.document.longTermMemory
     /\ actionHistory' = after.document.actionHistory
     /\ appUsageStats' = after.document.appUsageStats
     /\ behaviorPatterns' = after.document.behaviorPatterns
     /\ searchIndex' = after.index.searchIndex
     /\ tagIndex' = after.index.tagIndex
     /\ searchCache' = after.cache
     /\ ret' = NoReturn
     /\ UNCHANGED <<exported, now, nextId, removed>>

\* buildSearchIndex() run on its own: the recovery path of a diverged index.
\* lastOp.id counts the runs in a row.
BuildSearchIndex ==
  LET I == buildSearchIndex(Index, longTermMemory)
  IN /\ Call([Op("buildSearchIndex") EXCEPT
                !.id = IF lastOp.op = "buildSearchIndex" THEN lastOp.id + 1 ELSE 1])
     /\ searchIndex' = I.searchIndex
     /\ tagIndex' = I.tagIndex
     /\ ret' = NoReturn
     /\ UNCHANGED <<longTermMemory, actionHistory, appUsageStats, behaviorPatterns,
                    searchCache, exported, now, nextId, removed>>

\* ---------------------------------------------------------------- recordAction
\* slice(-100) of the history
RecentActions == 100
sequenceLength == 3
\* a clock tick is five minutes
TicksPerHour == 12

\* new Date(timestamp).getHours()
getHours(t) == (t \div TicksPerHour) % 24

lastN(s, n) == IF Len(s) > n THEN SubSeq(s, Len(s) - n + 1, Len(s)) ELSE s

\* a cap that keeps the oldest entries: splice(maxEntries)
pushCappedKeepOldest(history, entry, maxEntries) ==
  SubSeq(Append(history, entry), 1,
         IF Len(history) + 1 > maxEntries THEN maxEntries ELSE Len(history) + 1)

\* history.push(entry); if (history.length > max) history.splice(0, history.length - max)
pushCapped(history, entry, maxEntries) ==
  IF Len(history) + 1 > maxEntries
  THEN SubSeq(Append(history, entry), Len(history) + 2 - maxEntries, Len(history) + 1)
  ELSE Append(history, entry)

updateAppStats(stats, appName, t) ==
  MapPut(stats, appName,
         [frequency |-> (IF appName \in DOMAIN stats THEN stats[appName].frequency ELSE 0) + 1,
          lastUsed |-> t])

count(s, x) == Cardinality({i \in 1..Len(s) : s[i] = x})

\* the first item that reaches the highest count
getMostFrequent(arr) ==
  arr[CHOOSE i \in 1..Len(arr) :
        /\ \A j \in 1..Len(arr) : count(arr, arr[j]) <= count(arr, arr[i])
        /\ \A j \in 1..(i - 1) : count(arr, arr[j]) < count(arr, arr[i])]

\* getFrequencyRate(arr, item) > 0.5
moreThanHalf(arr, item) == 2 * count(arr, item) > Len(arr)

\* confidence 1.0; confidence is kept in units of 10^-8, in which
\* 0.5 * 1.1^k is a whole number for every k that stays below 1.0
FullConfidence == 100000000

\* a reinforcement that adds a tenth of what is missing to 1.0 and never gets there
reinforceTowardsOne(confidence) == confidence + (FullConfidence - confidence) \div 10

\* Math.min(confidence * 1.1, 1)
reinforce(confidence) ==
  IF confidence * 11 > FullConfidence * 10 THEN FullConfidence
  ELSE (confidence * 11) \div 10

\* existing pattern: frequency += by, refresh; otherwise push a new one
upsertPattern(patterns, id, by, triggers, outcomes, t) ==
  IF \E i \in 1..Len(patterns) : patterns[i].id = id
  THEN [i \in 1..Len(patterns) |->
          IF patterns[i].id = id /\ \A j \in 1..(i - 1) : patterns[j].id # id
          THEN [patterns[i] EXCEPT !.frequency = @ + by, !.lastOccurred = t,
                                   !.confidence = reinforce(@)]
          ELSE patterns[i]]
  ELSE Append(patterns, [id |-> id, frequency |-> by, lastOccurred |-> t,
                         triggers |-> triggers, outcomes |-> outcomes,
                         confidence |-> FullConfidence \div 2])

\* the hourly slots of the actions that name an application, first seen first
RECURSIVE timeSlots(_)
timeSlots(actions) ==
  IF actions = <<>> THEN <<>>
  ELSE LET rest == timeSlots(SubSeq(actions, 1, Len(actions) - 1))
           a == actions[Len(actions)]
       IN IF a.applicationName # <<>> THEN SetAdd(rest, getHours(a.timestamp)) ELSE rest

appsOfSlot(actions, hour) ==
  LET inSlot == SelectSeq(actions, LAMBDA a :
                  a.applicationName # <<>> /\ getHours(a.timestamp) = hour)
  IN [i \in 1..Len(inSlot) |-> inSlot[i].applicationName]

RECURSIVE timePatterns(_, _, _, _)
timePatterns(patterns, actions, slots, t) ==
  IF slots = <<>> THEN patterns
  ELSE LET apps == appsOfSlot(actions, Head(slots))
           app == getMostFrequent(apps)
       IN timePatterns(
            IF moreThanHalf(apps, app)
            THEN upsertPattern(patterns,
                   [kind |-> "time-app", slot |-> Head(slots), key |-> app],
                   1, <<Head(slots)>>, <<app>>, t)
            ELSE patterns,
            actions, Tail(slots), t)

\* recentActions.slice(i, i + 3).map(a => a.applicationName || "").join(">")
sequenceKey(actions, i) ==
  actions[i].applicationName \o <<">">> \o actions[i + 1].applicationName
    \o <<">">> \o actions[i + 2].applicationName

\* if (seq.includes("")) continue
skipped(seq) == includes(seq, <<>>)

\* the keys of sequenceCounts, first seen first
RECURSIVE sequenceKeys(_, _)
sequenceKeys(actions, n) ==
  IF n < 1 THEN <<>>
  ELSE LET rest == sequenceKeys(actions, n - 1)
       IN IF skipped(sequenceKey(actions, n)) THEN rest
          ELSE SetAdd(rest, sequenceKey(actions, n))

sequenceCount(actions, seq) ==
  Cardinality({i \in 1..(Len(actions) - sequenceLength + 1) :
                 ~skipped(sequenceKey(actions, i)) /\ sequenceKey(actions, i) = seq})

RECURSIVE sequencePatterns(_, _, _, _)
sequencePatterns(patterns, actions, keys, t) ==
  IF keys = <<>> THEN patterns
  ELSE sequencePatterns(
         IF sequenceCount(actions, Head(keys)) > 1
         THEN upsertPattern(patterns,
                [kind |-> "app-seq", slot |-> 0, key |-> Head(keys)],
                sequenceCount(actions, Head(keys)), <<>>, <<>>, t)
         ELSE patterns,
         actions, Tail(keys), t)

detectPatterns(patterns, history, t) ==
  LET recentActions == lastN(history, RecentActions)
      timed == timePatterns(patterns, recentActions, timeSlots(recentActions), t)
  IN sequencePatterns(timed, recentActions,
                      sequenceKeys(recentActions, Len(recentActions) - sequenceLength + 1), t)

recordAction(action) ==
  LET entry == [id |-> nextId, timestamp |-> now, actionType |-> action.actionType,
                applicationName |-> action.applicationName]
      history == pushCapped(actionHistory, entry, maxHistoryEntries)
  IN /\ nextId' = nextId + 1
     /\ actionHistory' = history
     /\ appUsageStats' = IF action.applicationName # <<>>
                          THEN updateAppStats(appUsageStats, action.applicationName, now)
                          ELSE appUsageStats
     \* memorySettings.autoLearnEnabled is true in the defaults
     /\ behaviorPatterns' = detectPatterns(behaviorPatterns, history, now)
     /\ ret' = NoReturn
     /\ UNCHANGED <<longTermMemory, searchIndex, tagIndex, searchCache, exported,
                    now, removed>>

RecordAction(action) ==
  /\ nextId <= MaxIds
  /\ Call([Op("recordAction") EXCEPT !.id = nextId])
  /\ recordAction(action)

\* ------------------------------------------------- getAllTags, getMemoryStats
\* tag -> ids.size for every key of the tag index (the order of equal counts,
\* which follows the insertion order of the Map keys, is left out)
getAllTags(I) == [tag \in DOMAIN I.tagIndex |-> Len(I.tagIndex[tag])]

GetAllTags ==
  /\ Call(Op("getAllTags"))
  /\ ret' = [NoReturn EXCEPT !.stats = getAllTags(Index)]
  /\ UNCHANGED <<longTermMemory, actionHistory, appUsageStats, behaviorPatterns,
                 searchIndex, tagIndex, searchCache, exported, now, nextId, removed>>

\* the first memory with the highest accessCount, -1 for none
mostAccessed(memories) ==
  IF memories = <<>> THEN -1
  ELSE memories[CHOOSE i \in 1..Len(memories) :
         /\ \A j \in 1..Len(memories) : memories[j].accessCount <= memories[i].accessCount
         /\ \A j \in 1..(i - 1) : memories[j].accessCount < memories[i].accessCount].id

getMemoryStats(I, memories) ==
  [totalMemories |-> Len(memories),
   totalTags |-> Cardinality(DOMAIN I.tagIndex),
   totalRelevance |-> sumSeq([i \in 1..Len(memories) |-> memories[i].relevanceScore]),
   mostAccessedMemory |-> mostAccessed(memories)]

GetMemoryStats ==
  /\ Call(Op("getMemoryStats"))
  /\ ret' = [NoReturn EXCEPT !.stats = getMemoryStats(Index, longTermMemory)]
  /\ UNCHANGED <<longTermMemory, actionHistory, appUsageStats, behaviorPatterns,
                 searchIndex, tagIndex, searchCache, exported, now, nextId, removed>>

\* ------------------------------------------------------------- scheduleCleanup
retentionDays == 365
retentionTicks == retentionDays * 24 * TicksPerHour

\* a cutoff two retention windows back
cutoffTimeTwoWindows(t) == t - 2 * retentionTicks
\* cutoffTime = Date.now() - retentionDays * 24 * 60 * 60 * 1000
cutoffTime(t) == t - retentionTicks

\* the setInterval callback: drop history and patterns older than the cutoff
Cleanup ==
  /\ Call(Op("cleanup"))
  /\ actionHistory' = SelectSeq(actionHistory,
                         LAMBDA entry : entry.timestamp > cutoffTime(now))
  /\ behaviorPatterns' = SelectSeq(behaviorPatterns,
                            LAMBDA pattern : pattern.lastOccurred > cutoffTime(now))
  /\ ret' = NoReturn
  /\ UNCHANGED <<longTermMemory, appUsageStats, searchIndex, tagIndex, searchCache,
                 exported, now, nextId, removed>>

Next ==
  \/ Tick
  \/ \E fields \in SaveInputs : SaveMemory(fields)
  \/ \E s \in SearchInputs : SearchMemories(s[1], s[2], s[3])
  \/ \E id \in 0..MaxIds, u \in UpdateInputs : UpdateMemory(id, u)
  \/ \E id \in 0..MaxIds : DeleteMemory(id)
  \/ \E o \in TagInputs, n \in TagInputs : MergeTags(o, n)
  \/ \E t \in TagInputs : RemoveTag(t)
  \/ \E a \in ActionInputs : RecordAction(a)
  \/ ExportUserData
  \/ \E data \in ImportInputs \cup {exported} : ImportUserData(data)
  \/ BuildSearchIndex
  \/ GetAllTags
  \/ GetMemoryStats
  \/ Cleanup

Spec == Init /\ [][Next]_vars

\* updates objects that reach updateMemory through the preload bridge, which
\* passes them on as `any`: the hook types them Partial<MemoryEntry>
ExternalUpdateInputs == {[id |-> 1], [createdAt |-> 2, title |-> S_cd]}

\* a memory object that reaches saveMemory through the bridge without tags
ExternalSaveInputs ==
  { [type |-> "note", title |-> S_ab, content |-> S_cd, relevanceScore |-> 5] }

\* saveMemory of an object without tags: generateId, the copy of the list
\* and its push, the words of addToSearchIndex, and then memory.tags.forEach
\* of undefined throws a TypeError, before the store is set
SaveMemoryWithoutTags(fields) ==
  LET entry == [id |-> nextId, title |-> fields.title, content |-> fields.content]
  IN /\ nextId <= MaxIds
     /\ Call([Op("saveMemory") EXCEPT !.id = nextId])
     /\ nextId' = nextId + 1
     /\ searchIndex' = addAll(searchIndex, memoryWords(entry), entry.id)
     /\ ret' = [NoReturn EXCEPT !.threw = TRUE]
     /\ UNCHANGED <<longTermMemory, tagIndex, searchCache, removed, actionHistory,
                    appUsageStats, behaviorPatterns, exported, now>>

NextExternal ==
  \/ Next
  \/ \E id \in 0..MaxIds, u \in ExternalUpdateInputs : UpdateMemory(id, u)
  \/ \E fields \in ExternalSaveInputs : SaveMemoryWithoutTags(fields)

\* the store driven through the renderer-facing interface
SpecExternal == Init /\ [][NextExternal]_vars

\* --------------------------------------------------- the action log by itself
S_mail == <<"m", "a", "i", "l">>
LoggedActions ==
  { [actionType |-> "app_switch", applicationName |-> S_code],
    [actionType |-> "app_switch", applicationName |-> S_mail],
    [actionType |-> "query", applicationName |-> S_empty] }

\* a time-slot pattern that eight detector runs have left in the store file:
\* created at 0.5 and reinforced seven times, 0.5 * 1.1^7 = 0.97435855
PersistedPattern ==
  [id |-> [kind |-> "time-app", slot |-> 0, key |-> S_code], frequency |-> 8,
   lastOccurred |-> 0, triggers |-> <<0>>, outcomes |-> <<S_code>>,
   confidence |-> 97435855]

\* the constructor over a store file without Memories
InitActions ==
  /\ longTermMemory = <<>>
  /\ searchIndex = EmptyMap
  /\ tagIndex = EmptyMap
  /\ actionHistory = <<>>
  /\ appUsageStats = EmptyMap
  /\ behaviorPatterns \in {<<>>, <<PersistedPattern>>}
  /\ searchCache = EmptyMap
  /\ exported = DefaultDocument
  /\ now = 1
  /\ nextId = 1
  /\ steps = 0
  /\ lastOp = Op("constructor")
  /\ ret = NoReturn
  /\ removed = <<>>
  /\ frame = IdleFrame
  /\ hook = NoHook(<<>>)

LogAction(action) ==
  /\ nextId <= MaxActions
  /\ lastOp' = [Op("recordAction") EXCEPT !.id = nextId]
  /\ steps' = steps + 1
  /\ recordAction(action)
  /\ UNCHANGED <<frame, hook>>

NextActions ==
  \/ Tick
  \/ \E a \in LoggedActions : LogAction(a)

\* the store as the recorder of user actions
SpecActions == InitActions /\ [][NextActions]_vars

\* ------------------------------------------------------- the useUserMemory hook
mainVars == <<longTermMemory, actionHistory, appUsageStats, behaviorPatterns,
              searchIndex, tagIndex, searchCache, exported, nextId, steps, lastOp,
              ret, removed, frame>>

\* 24 * 60 * 60 * 1000 ms in clock ticks
oneDayMs == 24 * TicksPerHour

\* a stamp an organization of two days ago has left in localStorage
StaleStamp == 1 - 2 * oneDayMs

\* checkAndOrganize up to its await: read the stamp, take the time, and start
\* performAutoOrganization when there is no stamp or it is over a day old.
\* now.toString() and parseInt give back the number, so the stamp is kept as one.
checkAndOrganize(h, u, t) ==
  IF h.lastMemoryOrganization = <<>> \/ t - h.lastMemoryOrganization[1] > oneDayMs
  THEN [h EXCEPT !.lastCheck[u] = t, !.organizing[u] = TRUE, !.capturedNow[u] = t,
                 !.started = Append(@, t)]
  ELSE [h EXCEPT !.lastCheck[u] = t]

\* a component that uses the hook mounts: the effects run, the first check with them
Mount(u) ==
  /\ ~hook.mounted[u]
  /\ ~hook.organizing[u]
  /\ Len(hook.started) < MaxRuns
  /\ hook' = checkAndOrganize([hook EXCEPT !.mounted[u] = TRUE], u, now)
  /\ UNCHANGED <<mainVars, now>>

\* the effect cleanups: clearInterval, clearTimeout(searchTimeoutRef.current);
\* an organization under way goes on
Unmount(u) ==
  /\ hook.mounted[u]
  /\ hook' = [hook EXCEPT !.mounted[u] = FALSE,
                          !.timers = @ \ {hook.searchTimeoutRef[u]}]
  /\ UNCHANGED <<mainVars, now>>

\* setInterval(checkAndOrganize, 60 * 60 * 1000)
IntervalFires(u) ==
  /\ hook.mounted[u]
  /\ ~hook.organizing[u]
  /\ now - hook.lastCheck[u] >= TicksPerHour
  /\ Len(hook.started) < MaxRuns
  /\ hook' = checkAndOrganize(hook, u, now)
  /\ UNCHANGED <<mainVars, now>>

\* performAutoOrganization has settled: localStorage.setItem(..., now.toString())
\* with the time taken before the await
OrganizationDone(u) ==
  /\ hook.organizing[u]
  /\ hook' = [hook EXCEPT !.organizing[u] = FALSE,
                          !.lastMemoryOrganization = <<hook.capturedNow[u]>>]
  /\ UNCHANGED <<mainVars, now>>

HourPasses ==
  /\ now + TicksPerHour <= 1 + MaxHours * TicksPerHour
  /\ now' = now + TicksPerHour
  /\ UNCHANGED <<mainVars, hook>>

\* searchMemories of the hook up to the return of its promise: clear the
\* timer the ref holds, set a new one
HookSearch(u, query) ==
  LET c == Len(hook.calls) + 1
  IN /\ hook.mounted[u]
     /\ c <= MaxCalls
     /\ hook' = [hook EXCEPT
                   !.timers = (@ \ {hook.searchTimeoutRef[u]}) \cup {c},
                   !.searchTimeoutRef[u] = c,
                   !.calls = Append(@, [owner |-> u, query |-> query,
                                        status |-> "pending", results |-> <<>>])]
     /\ UNCHANGED <<mainVars, now>>

\* the debounce delay of call c has elapsed: the callback invokes the handler
TimerFires(c) ==
  /\ c \in hook.timers
  /\ hook' = [hook EXCEPT !.timers = @ \ {c}, !.calls[c].status = "requested"]
  /\ UNCHANGED <<mainVars, now>>

\* the main process answers (the handler passes query and limit on), and the
\* callback resolves the promise of call c
SearchResponds(c) ==
  LET query == hook.calls[c].query
  IN /\ c \in 1..Len(hook.calls)
     /\ hook.calls[c].status = "requested"
     /\ canStart
     /\ steps' = steps + 1
     /\ lastOp' = searchOp(query, NoLimit, NoFilters)
     /\ searchMemoriesCall(query, NoLimit, NoFilters)
     /\ hook' = [hook EXCEPT
                   !.calls[c].status = "resolved",
                   !.calls[c].results =
                      Ids(searchMemories(searchCache, Index, longTermMemory, query,
                                         NoLimit, NoFilters, now))]
     /\ UNCHANGED frame

InitHook ==
  /\ longTermMemory = <<StoredMemory>>
  /\ searchIndex = buildSearchIndex(EmptyIndex, longTermMemory).searchIndex
  /\ tagIndex = buildSearchIndex(EmptyIndex, longTermMemory).tagIndex
  /\ actionHistory = <<>>
  /\ appUsageStats = EmptyMap
  /\ behaviorPatterns = <<>>
  /\ searchCache = EmptyMap
  /\ exported = DefaultDocument
  /\ now = 1
  /\ nextId = 1
  /\ steps = 0
  /\ lastOp = Op("constructor")
  /\ ret = NoReturn
  /\ removed = <<>>
  /\ frame = IdleFrame
  /\ hook \in {NoHook(<<>>), NoHook(<<StaleStamp>>)}

NextHook ==
  \/ HourPasses
  \/ \E u \in Users : Mount(u)
  \/ \E u \in Users : Unmount(u)
  \/ \E u \in Users : IntervalFires(u)
  \/ \E u \in Users : OrganizationDone(u)
  \/ \E u \in Users : HookSearch(u, S_ab)
  \/ \E c \in 1..MaxCalls : TimerFires(c)
  \/ \E c \in 1..MaxCalls : SearchResponds(c)

\* a request is with the main process, which is free to handle it: what
\* enables SearchResponds
canRespond ==
  \E c \in 1..Len(hook.calls) : hook.calls[c].status = "requested" /\ canStart

\* The renderer with the main process behind it. A timer that is set and not
\* cleared fires, and a request that was sent is answered: weak fairness of
\* both, the second with its enabling condition written out.
SpecHook ==
  /\ InitHook
  /\ [][NextHook]_vars
  /\ WF_vars(\E c \in 1..MaxCalls : TimerFires(c))
  /\ ([]<>(~canRespond) \/ []<><<\E c \in 1..MaxCalls : SearchResponds(c)>>_vars)

\* -------------------------------------------------- MemoryOrganizationService
\* Similarity, relatedness and confidence are kept in thousandths, each term
\* rounded down.
SIMILARITY_THRESHOLD == 750
CLUSTER_MIN_SIZE == 2
\* getAllMemories: searchMemories("", 10000)
AllMemoriesLimit == 10000
\* .slice(0, 8) of findRelatedMemories
MaxRelated == 8
ARCHIVE_AGE_DAYS == 90
\* .slice(0, 10) of performAutoOrganization
MaxArchived == 10
\* searchMemories("", 5) of refreshRecentMemories
RecentMemories == 5

\* hiragana, katakana and CJK ideographs (\u3040-\u309F\u30A0-\u30FF\u4E00-\u9FAF),
\* a character of each written by its code point
KanaKanjiChars == {"u3042", "u30A2", "u65E5", "u672C"}
isTokenChar(c) == isWordChar(c) \/ c \in KanaKanjiChars

RECURSIVE tokenizeFrom(_, _, _, _)
tokenizeFrom(s, i, cur, acc) ==
  IF i > Len(s) THEN Append(acc, cur)
  ELSE IF isTokenChar(s[i]) THEN tokenizeFrom(s, i + 1, Append(cur, s[i]), acc)
  ELSE tokenizeFrom(s, i + 1, <<>>, Append(acc, cur))

\* text.replace(/[^\w\s kana kanji]/g, " ").split(/\s+/).filter(word.length > 1):
\* every other character separates, and pieces of one character or none are dropped
tokenize(text) == SelectSeq(tokenizeFrom(text, 1, <<>>, <<>>), LAMBDA w : Len(w) > 1)

min2(a, b) == IF a < b THEN a ELSE b
max2(a, b) == IF a > b THEN a ELSE b

\* one row of the matrix: row[j + 1] is matrix[i][j]. A cell is computed
\* (the test of its value) before the next one is.
RECURSIVE levenshteinRow(_, _, _, _, _)
levenshteinRow(previous, ch, str1, j, row) ==
  IF j > Len(str1) THEN row
  ELSE LET cell == IF ch = str1[j] THEN previous[j]
                   ELSE min2(previous[j] + 1, min2(row[j] + 1, previous[j + 1] + 1))
           filled == Append(row, cell)
       IN IF Len(filled) = j + 1
          THEN levenshteinRow(previous, ch, str1, j + 1, filled)
          ELSE filled

RECURSIVE levenshteinRows(_, _, _, _)
levenshteinRows(str1, str2, i, previous) ==
  IF i > Len(str2) THEN previous
  ELSE LET row == levenshteinRow(previous, str2[i], str1, 1, <<i>>)
       IN IF Len(row) = Len(previous)
          THEN levenshteinRows(str1, str2, i + 1, row)
          ELSE row

calculateLevenshteinDistance(str1, str2) ==
  levenshteinRows(str1, str2, 1, [j \in 1..(Len(str1) + 1) |-> j - 1])[Len(str1) + 1]

\* dotProduct / (magnitude1 * magnitude2) in thousandths, rounded down; the
\* lengths of the word lists cancel, which leaves the counts of the words
cosine(words1, words2) ==
  LET dot == sumSeq([i \in 1..Len(words1) |-> count(words2, words1[i])])
      squares1 == sumSeq([i \in 1..Len(words1) |-> count(words1, words1[i])])
      squares2 == sumSeq([i \in 1..Len(words2) |-> count(words2, words2[i])])
  IN CHOOSE c \in 0..1000 :
       /\ c * c * squares1 * squares2 <= dot * dot * 1000000
       /\ (c + 1) * (c + 1) * squares1 * squares2 > dot * dot * 1000000

calculateTextSimilarity(text1, text2) ==
  LET words1 == tokenize(toLowerCase(text1))
      words2 == tokenize(toLowerCase(text2))
      intersection == Range(words1) \cap Range(words2)
      union == Range(words1) \cup Range(words2)
      levenshtein == calculateLevenshteinDistance(text1, text2)
      maxLength == max2(Len(text1), Len(text2))
  IN IF words1 = <<>> \/ words2 = <<>> THEN 0
     ELSE (400 * Cardinality(intersection)) \div Cardinality(union)
            + (400 * cosine(words1, words2)) \div 1000
            + (200 * (maxLength - levenshtein)) \div maxLength

\* the rule without the test for one content containing the other
determineMergeActionBySimilarity(memory1, memory2, similarity) ==
  IF similarity > 950 THEN "merge"
  ELSE IF similarity > 800 THEN "keep_both"
  ELSE "merge"

determineMergeAction(memory1, memory2, similarity) ==
  IF similarity > 950 THEN "merge"
  ELSE IF \/ includes(memory1.content, memory2.content)
          \/ includes(memory2.content, memory1.content) THEN "merge"
  ELSE IF /\ memory2.createdAt - memory1.createdAt > 0
          /\ 2 * Len(memory2.content) > 3 * Len(memory1.content) THEN "archive_older"
  ELSE IF similarity > 800 THEN "keep_both"
  ELSE "merge"

\* the pairs (i, j), i < j, in the order of the two loops
RECURSIVE pairsFrom(_, _, _)
pairsFrom(n, i, j) ==
  IF i >= n THEN <<>>
  ELSE IF j > n THEN pairsFrom(n, i + 1, i + 2)
  ELSE <<<<i, j>>>> \o pairsFrom(n, i, j + 1)

findDuplicateMemories(memories) ==
  LET pairs == pairsFrom(Len(memories), 1, 2)
      compared == [k \in 1..Len(pairs) |->
                     LET memory1 == memories[pairs[k][1]]
                         memory2 == memories[pairs[k][2]]
                         similarity == calculateTextSimilarity(memory1.content,
                                                               memory2.content)
                     IN [memory1 |-> memory1.id, memory2 |-> memory2.id,
                         similarity |-> similarity,
                         suggestedAction |->
                           determineMergeAction(memory1, memory2, similarity)]]
  IN stableSort(SelectSeq(compared, LAMBDA d : d.similarity > SIMILARITY_THRESHOLD),
                "similarity")

\* Math.exp(-timeDiff / 1 week) in thousandths: 1 - x within the first day,
\* where that is exact to a thousandth of the weight the term has; e^-k for
\* the k whole weeks that have passed after it, 0 from the seventh week on
oneWeek == 7 * 24 * TicksPerHour
timeScore(timeDiff) ==
  IF timeDiff * 7 < oneWeek THEN 1000 - (timeDiff * 1000) \div oneWeek
  ELSE <<1000, 367, 135, 49, 18, 6, 2, 0>>[min2(timeDiff \div oneWeek, 7) + 1]

calculateRelatedness(memory1, memory2) ==
  LET commonTags == SelectSeq(memory1.tags, LAMBDA tag :
                      \E t \in 1..Len(memory2.tags) :
                         toLowerCase(memory2.tags[t]) = toLowerCase(tag))
      timeDiff == IF memory1.createdAt > memory2.createdAt
                  THEN memory1.createdAt - memory2.createdAt
                  ELSE memory2.createdAt - memory1.createdAt
  IN min2(300 * Len(commonTags)
            + (400 * calculateTextSimilarity(memory1.content, memory2.content)) \div 1000
            + (200 * calculateTextSimilarity(memory1.title, memory2.title)) \div 1000
            + timeScore(timeDiff) \div 10,
          1000)

findRelatedMemories(baseMemory, allMemories) ==
  LET others == SelectSeq(allMemories, LAMBDA m : m.id # baseMemory.id)
      scored == [i \in 1..Len(others) |->
                   [memory |-> others[i],
                    relatedness |-> calculateRelatedness(baseMemory, others[i])]]
      sorted == stableSort(SelectSeq(scored, LAMBDA r : r.relatedness > 600),
                           "relatedness")
  IN [i \in 1..min2(Len(sorted), MaxRelated) |-> sorted[i].memory]

calculateClusterConfidence(memories) ==
  LET pairs == pairsFrom(Len(memories), 1, 2)
  IN IF Len(memories) < 2 THEN 0
     ELSE sumSeq([k \in 1..Len(pairs) |->
                    calculateRelatedness(memories[pairs[k][1]], memories[pairs[k][2]])])
            \div Len(pairs)

\* the loop of clusterMemories from the k-th memory on
RECURSIVE clusterFrom(_, _, _, _)
clusterFrom(memories, k, processed, clusters) ==
  IF k > Len(memories) THEN clusters
  ELSE IF memories[k].id \in processed
  THEN clusterFrom(memories, k + 1, processed, clusters)
  ELSE LET relatedMemories == findRelatedMemories(memories[k], memories)
           members == <<memories[k]>> \o relatedMemories
       IN IF Len(relatedMemories) >= CLUSTER_MIN_SIZE
          THEN clusterFrom(memories, k + 1,
                           processed \cup {members[i].id : i \in 1..Len(members)},
                           Append(clusters,
                                  [memories |-> Ids(members),
                                   confidence |-> calculateClusterConfidence(members)]))
          ELSE clusterFrom(memories, k + 1, processed, clusters)

clusterMemories(memories) == clusterFrom(memories, 1, {}, <<>>)

\* ARCHIVE_AGE_DAYS * 24 * 60 * 60 * 1000 ms in clock ticks
archiveAge == ARCHIVE_AGE_DAYS * 24 * TicksPerHour

\* relevanceScore is kept in tenths: lowRelevance is relevanceScore < 0.3
identifyArchiveCandidates(memories, t) ==
  Ids(stableSort(SelectSeq(memories, LAMBDA memory :
                   /\ memory.createdAt < t - archiveAge
                   /\ (memory.accessCount < 2 \/ memory.relevanceScore < 3)),
                 "accessAscending"))

\* the duplicates, the clusters and the archive candidates of organizeMemories
organizeMemories(memories, t) ==
  [duplicates |-> findDuplicateMemories(memories),
   clusters |-> clusterMemories(memories),
   archiveCandidates |-> identifyArchiveCandidates(memories, t)]

\* the counters of performAutoOrganization: mergeDuplicateMemories,
\* archiveMemory and createMemoryCluster have empty bodies, so the loops
\* only count
autoOrganizationCounts(insights) ==
  [merged |-> Len(SelectSeq(insights.duplicates, LAMBDA duplicate :
                    duplicate.similarity > 900 /\ duplicate.suggestedAction = "merge")),
   archived |-> min2(Len(insights.archiveCandidates), MaxArchived),
   clustered |-> Len(SelectSeq(insights.clusters, LAMBDA cluster :
                       cluster.confidence > 800))]

\* contents and tags of memories that earlier runs have saved
S_plan ==
  <<"q", "u", "a", "r", "t", "e", "r", "l", "y", " ", "b", "u", "d", "g", "e", "t",
    " ", "p", "l", "a", "n">>
S_planRevision ==
  <<"q", "u", "a", "r", "t", "e", "r", "l", "y", " ", "b", "u", "d", "g", "e", "t",
    " ", "p", "l", "a", "n", " ", "r", "e", "v", "i", "s", "i", "o", "n">>
S_ABCD == <<"A", "B", " ", "C", "D">>
S_abcd == <<"a", "b", " ", "c", "d">>
S_abcdTwice == <<"a", "b", " ", "c", "d", " ", "a", "b", " ", "c", "d">>
S_letters == <<"a", " ", "b">>
S_ef == <<"e", "f">>
S_gh == <<"g", "h">>

savedMemory(id, createdAt, content, tags) ==
  [id |-> id, createdAt |-> createdAt, updatedAt |-> createdAt, type |-> "note",
   title |-> S_ab, content |-> content, tags |-> tags, relevanceScore |-> 5,
   accessCount |-> 0, lastAccessed |-> 0]

\* in the order they were saved in
SavedMemories ==
  << savedMemory(11, -2 * archiveAge, S_plan, <<S_ab, S_cd>>),
     savedMemory(12, 0, S_planRevision, <<S_ab, S_cd, S_ef, S_gh>>),
     savedMemory(13, 0, S_ABCD, <<S_ab, S_cd, S_ef, S_gh>>),
     savedMemory(14, 0, S_abcd, <<S_ef, S_gh>>),
     savedMemory(15, 1, S_abcdTwice, <<>>),
     savedMemory(16, 1, S_letters, <<>>),
     savedMemory(17, 1, S_letters, <<>>),
     savedMemory(18, 1, S_abcd, <<>>) >>

\* the stores of up to MaxOrganized of them, the others deleted; saveMemory,
\* whose capacity is the store's, takes no part in an organization
OrganizedStores ==
  { SelectSeq(SavedMemories, LAMBDA m : m.id \in ids) :
      ids \in {kept \in SUBSET Range(Ids(SavedMemories)) :
                 Cardinality(kept) <= MaxOrganized} }

\* organizeMemories of the hook: getAllMemories is a search of the store, and
\* setOrganizationInsights keeps what the service returns
OrganizeMemories ==
  /\ Begin(searchOp(<<>>, AllMemoriesLimit, NoFilters))
  /\ searchMemoriesCall(<<>>, AllMemoriesLimit, NoFilters)
  /\ hook' = [hook EXCEPT
                !.organizationInsights =
                   organizeMemories(searchMemories(searchCache, Index, longTermMemory,
                                                   <<>>, AllMemoriesLimit, NoFilters,
                                                   now), now)]
  /\ UNCHANGED frame

\* performAutoOrganization of the hook: the service organizes and counts, and
\* refreshRecentMemories searches the store once more ("", 5); getAllTags
\* and getMemoryStats read it
PerformAutoOrganization ==
  LET all == searchMemories(searchCache, Index, longTermMemory, <<>>,
                            AllMemoriesLimit, NoFilters, now)
      cached == cacheAfterSearch(searchCache, Index, longTermMemory, <<>>,
                                 AllMemoriesLimit, NoFilters, now)
  IN /\ Begin(Op("performAutoOrganization"))
     /\ hook' = [hook EXCEPT
                   !.organizationResult =
                      autoOrganizationCounts(organizeMemories(all, now))]
     /\ searchCache' = cacheAfterSearch(cached, Index, longTermMemory, <<>>,
                                        RecentMemories, NoFilters, now)
     /\ ret' = [NoReturn EXCEPT
                  !.results = searchMemories(cached, Index, longTermMemory, <<>>,
                                             RecentMemories, NoFilters, now)]
     /\ UNCHANGED <<longTermMemory, actionHistory, appUsageStats, behaviorPatterns,
                    searchIndex, tagIndex, exported, now, nextId, removed, frame>>

InitOrganize ==
  /\ longTermMemory \in OrganizedStores
  /\ searchIndex = buildSearchIndex(EmptyIndex, longTermMemory).searchIndex
  /\ tagIndex = buildSearchIndex(EmptyIndex, longTermMemory).tagIndex
  /\ actionHistory = <<>>
  /\ appUsageStats = EmptyMap
  /\ behaviorPatterns = <<>>
  /\ searchCache = EmptyMap
  /\ exported = DefaultDocument
  /\ now = 1
  /\ nextId = 1
  /\ steps = 0
  /\ lastOp = Op("constructor")
  /\ ret = NoReturn
  /\ removed = <<>>
  /\ frame = IdleFrame
  /\ hook = NoHook(<<>>)

NextOrganize == OrganizeMemories \/ PerformAutoOrganization

\* the organization service over a store of saved memories
SpecOrganize == InitOrganize /\ [][NextOrganize]_vars

\* ------------------------------------------- the store over a filled store file
\* a word of two kanji
S_kanji == <<"u65E5", "u672C">>

filedMemory(id, title, content, relevanceScore, accessCount) ==
  [id |-> id, createdAt |-> 0, updatedAt |-> 0, type |-> "note", title |-> title,
   content |-> content, tags |-> <<>>, relevanceScore |-> relevanceScore,
   accessCount |-> accessCount, lastAccessed |-> 0]

\* store files of earlier runs, the first two at the capacity of the store,
\* with the access counts updateMemory has written
FiledStores ==
  { <<filedMemory(21, S_ab, S_ab, 5, 1), filedMemory(22, S_cd, S_ab_cd, 10, 1)>>,
    <<filedMemory(21, S_ab, S_ab, 5, 1), filedMemory(22, S_cd, S_ab_cd, 5, 1)>>,
    <<filedMemory(23, S_kanji, S_ab, 5, 1)>>,
    <<filedMemory(24, S_cd, S_ab \o <<" ">> \o S_kanji, 5, 0)>> }

FiledSaveInputs ==
  { [type |-> "note", title |-> S_kanji, content |-> S_cd, tags |-> <<S_ab>>,
     relevanceScore |-> 5],
    [type |-> "note", title |-> S_abc, content |-> S_ab_cd, tags |-> <<S_cd>>,
     relevanceScore |-> 10] }

FiledSearchInputs ==
  { <<S_ab, 10, NoFilters>>, <<S_kanji, 10, NoFilters>>, <<S_cd, 1, NoFilters>> }

InitFiled ==
  /\ longTermMemory \in FiledStores
  /\ searchIndex = buildSearchIndex(EmptyIndex, longTermMemory).searchIndex
  /\ tagIndex = buildSearchIndex(EmptyIndex, longTermMemory).tagIndex
  /\ actionHistory = <<>>
  /\ appUsageStats = EmptyMap
  /\ behaviorPatterns = <<>>
  /\ searchCache = EmptyMap
  /\ exported = DefaultDocument
  /\ now = 1
  /\ nextId = 1
  /\ steps = 0
  /\ lastOp = Op("constructor")
  /\ ret = NoReturn
  /\ removed = <<>>
  /\ frame = IdleFrame
  /\ hook = NoHook(<<>>)

NextFiled ==
  \/ Tick
  \/ \E fields \in FiledSaveInputs : SaveMemory(fields)
  \/ \E s \in FiledSearchInputs : SearchMemories(s[1], s[2], s[3])

\* saving to and searching a store that earlier runs have filled
SpecFiled == InitFiled /\ [][NextFiled]_vars

\* ------------------------------------------ the action log over an old store file
\* recordAction as earlier runs of the program executed it: the entry pushed
\* onto the capped history, then the detector over the history
RECURSIVE replay(_, _)
replay(records, n) ==
  IF n = 0 THEN [actionHistory |-> <<>>, behaviorPatterns |-> <<>>]
  ELSE LET earlier == replay(records, n - 1)
           entry == [id |-> 30 + n, timestamp |-> records[n][1],
                     actionType |-> "app_switch", applicationName |-> records[n][2]]
           history == pushCapped(earlier.actionHistory, entry, maxHistoryEntries)
       IN [actionHistory |-> history,
           behaviorPatterns |->
              detectPatterns(earlier.behaviorPatterns, history, records[n][1])]

\* the actions of earlier runs, as <<time, application>>: two over a year ago
\* in one hourly slot, one that reaches the cutoff at the second tick, and
\* recent ones
FiledRecords ==
  { <<<<-retentionTicks - 2, S_mail>>, <<-retentionTicks - 1, S_code>>,
      <<2 - retentionTicks, S_code>>, <<0, S_code>>>>,
    <<<<-retentionTicks - 2, S_mail>>, <<0, S_code>>>>,
    <<<<-1, S_code>>, <<0, S_code>>>> }

InitLog ==
  /\ longTermMemory = <<StoredMemory>>
  /\ searchIndex = buildSearchIndex(EmptyIndex, longTermMemory).searchIndex
  /\ tagIndex = buildSearchIndex(EmptyIndex, longTermMemory).tagIndex
  /\ \E records \in FiledRecords :
        /\ actionHistory = replay(records, Len(records)).actionHistory
        /\ behaviorPatterns = replay(records, Len(records)).behaviorPatterns
  /\ appUsageStats = EmptyMap
  /\ searchCache = EmptyMap
  /\ exported = DefaultDocument
  /\ now = 1
  /\ nextId = 1
  /\ steps = 0
  /\ lastOp = Op("constructor")
  /\ ret = NoReturn
  /\ removed = <<>>
  /\ frame = IdleFrame
  /\ hook = NoHook(<<>>)

NextLog ==
  \/ Tick
  \/ \E a \in {action \in LoggedActions : action.applicationName # S_mail} :
        LogAction(a)
  \/ Cleanup

\* recording and cleaning up over the action log of earlier runs
SpecLog == InitLog /\ [][NextLog]_vars

\* ------------------------------------------------ the advanced suggestion service
\* numbers between 0 and 1 are kept in units of 1e-8, as confidences are
percent(n) == n * (FullConfidence \div 100)

S_goalQuery ==
  <<"u76EE", "u6A19", " ", "O", "R", " ", "g", "o", "a", "l", " ", "O", "R", " ",
    "u8A08", "u753B">>
S_learningQuery ==
  <<"u5B66", "u7FD2", " ", "O", "R", " ", "u52C9", "u5F37", " ", "O", "R", " ",
    "l", "e", "a", "r", "n", "i", "n", "g">>
GoalMemoriesLimit == 50
LearningMemoriesLimit == 30
SuggestionLimit == 8

S_goal == <<"g", "o", "a", "l">>
S_mokuhyou == <<"u76EE", "u6A19">>
S_shitai == <<"u3057", "u305F", "u3044">>
S_kanryou == <<"u5B8C", "u4E86">>
S_seikou == <<"u6210", "u529F">>
S_tassei == <<"u9054", "u6210">>
S_sagyou == <<"u4F5C", "u696D">>
S_programming == <<"u30D7", "u30ED", "u30B0", "u30E9", "u30DF", "u30F3", "u30B0">>
S_bunsho == <<"u6587", "u66F8">>

\* the content of the memory names a goal
mentionsGoal(memory) ==
  LET content == toLowerCase(memory.content)
  IN includes(content, S_mokuhyou) \/ includes(content, S_goal)
       \/ includes(content, S_shitai)

\* at most one goal per memory, under a new random id
extractGoalsFromMemory(memory, id, t) ==
  IF mentionsGoal(memory)
  THEN <<[id |-> id, title |-> memory.title, progress |-> 0,
          createdAt |-> memory.createdAt, updatedAt |-> t, status |-> "active",
          relatedMemories |-> <<memory.id>>]>>
  ELSE <<>>

\* this.goals.set(goal.id, goal) for the goals of every memory found; the
\* ids are new, so every goal is a new key of the Map
RECURSIVE updateGoals(_, _, _, _)
updateGoals(goals, goalMemories, ids, t) ==
  IF goalMemories = <<>> THEN goals
  ELSE LET extracted == extractGoalsFromMemory(Head(goalMemories), ids, t)
       IN updateGoals(goals \o extracted, Tail(goalMemories),
                      ids + Len(extracted), t)

\* the share of the outcomes that name a success; 0 / 0 for no outcomes
successRate(pattern) ==
  IF pattern.outcomes = <<>> THEN "NaN"
  ELSE (FullConfidence *
          Len(SelectSeq(pattern.outcomes, LAMBDA o :
                includes(o, S_seikou) \/ includes(o, S_kanryou)
                  \/ includes(o, S_tassei)))) \div Len(pattern.outcomes)

calculatePredictiveValue(pattern) ==
  LET frequencyScore == min2(pattern.frequency * percent(10), FullConfidence)
  IN (successRate(pattern) * 5 + frequencyScore * 3 + pattern.confidence * 2) \div 10

\* a property of the pattern object, <<>> for undefined
property(pattern, name) ==
  IF name \in DOMAIN pattern THEN <<pattern[name]>> ELSE <<>>

\* {...pattern, predictiveValue, contextualFactors}: the properties the
\* store's pattern has, and the two computed ones
enhanceBehaviorPattern(pattern) ==
  [id |-> pattern.id, frequency |-> pattern.frequency,
   lastOccurred |-> pattern.lastOccurred, triggers |-> pattern.triggers,
   outcomes |-> pattern.outcomes, confidence |-> pattern.confidence,
   timeOfDay |-> property(pattern, "timeOfDay"),
   predictiveValue |-> calculatePredictiveValue(pattern)]

\* Map.set: the value of a key the Map has is replaced in place
mapSet(entries, entry) ==
  IF \E i \in 1..Len(entries) : entries[i].id = entry.id
  THEN [i \in 1..Len(entries) |->
          IF entries[i].id = entry.id THEN entry ELSE entries[i]]
  ELSE Append(entries, entry)

RECURSIVE updateBehaviorPatterns(_, _)
updateBehaviorPatterns(known, patterns) ==
  IF patterns = <<>> THEN known
  ELSE updateBehaviorPatterns(mapSet(known, enhanceBehaviorPattern(Head(patterns))),
                              Tail(patterns))

\* the three hours most of the memories were created in; only includes()
\* reads the list, so it is kept in the order the hours are first seen
findOptimalTimeSlots(learningTimes) ==
  LET hours == setAddAll(<<>>, learningTimes)
      ahead(i) == Cardinality({j \in 1..Len(hours) :
                     \/ count(learningTimes, hours[j]) > count(learningTimes, hours[i])
                     \/ (count(learningTimes, hours[j]) = count(learningTimes, hours[i])
                           /\ j < i)})
  IN SelectSeq(hours, LAMBDA h :
       \E i \in 1..Len(hours) : hours[i] = h /\ ahead(i) < 3)

analyzeLearningProfile(memories) ==
  [optimalTimeSlots |->
     findOptimalTimeSlots([i \in 1..Len(memories) |-> getHours(memories[i].createdAt)])]

inferCognitiveState(hour) ==
  IF hour >= 9 /\ hour <= 11 THEN "focused"
  ELSE IF hour >= 14 /\ hour <= 16 THEN "creative"
  ELSE IF hour >= 16 /\ hour <= 18 THEN "analytical"
  ELSE IF hour >= 20 \/ hour <= 7 THEN "tired"
  ELSE "focused"

suggestion(type, priority, estimatedImpact, confidence, goals, patterns, t) ==
  [type |-> type, priority |-> priority, estimatedImpact |-> estimatedImpact,
   confidence |-> confidence, relatedGoals |-> goals, relatedPatterns |-> patterns,
   createdAt |-> t]

\* goals without an update for over seven days (no goal the service
\* extracts has a targetDate)
generateGoalProgressSuggestions(goals, t) ==
  LET stalled == SelectSeq(goals, LAMBDA g :
                   /\ g.status = "active"
                   /\ t - g.updatedAt > 7 * oneDayMs
                   /\ g.progress * 10 < 8)
  IN [i \in 1..Len(stalled) |->
        suggestion("goal_progress", "medium", percent(70), percent(60),
                   <<stalled[i].id>>, <<>>, t)]

\* the golden hour (the cognitive load of the profile is the constant 0.5
\* of 1.0, never above 0.8)
generateLearningOptimizationSuggestions(profile, context, t) ==
  IF profile # <<>> /\ \E i \in 1..Len(profile[1].optimalTimeSlots) :
                          profile[1].optimalTimeSlots[i] = context.timeOfDay
  THEN <<suggestion("learning_optimization", "high", percent(80), percent(90),
                    <<>>, <<>>, t)>>
  ELSE <<>>

generateProductivitySuggestions(patterns, context, t) ==
  LET productivePatterns ==
        SelectSeq(patterns, LAMBDA p :
          /\ \E i \in 1..Len(p.outcomes) :
                includes(p.outcomes[i], S_kanryou) \/ includes(p.outcomes[i], S_seikou)
          /\ p.timeOfDay = <<context.timeOfDay>>)
      bestPattern == CHOOSE p \in Range(productivePatterns) :
                       \A q \in Range(productivePatterns) :
                          q.predictiveValue <= p.predictiveValue
  IN (IF productivePatterns # <<>>
      THEN <<suggestion("productivity_boost", "high", bestPattern.predictiveValue,
                        bestPattern.confidence, <<>>, <<bestPattern.id>>, t)>>
      ELSE <<>>)
     \o
     (IF context.workload = "heavy"
      THEN <<suggestion("productivity_boost", "high", percent(80), percent(70),
                        <<>>, <<>>, t)>>
      ELSE <<>>)

generatePatternBasedSuggestions(patterns, context, t) ==
  LET slotPatterns == SelectSeq(patterns, LAMBDA p :
                        /\ p.timeOfDay = <<context.timeOfDay>>
                        /\ p.confidence > percent(70))
      first == SubSeq(slotPatterns, 1, min2(2, Len(slotPatterns)))
  IN [i \in 1..Len(first) |->
        suggestion("pattern_insight", "medium", (first[i].predictiveValue * 8) \div 10,
                   first[i].confidence, <<>>, <<first[i].id>>, t)]

generateHealthSuggestions(context, t) ==
  LET prolongedWork == Len(SelectSeq(context.recentActivity, LAMBDA activity :
                         \/ includes(activity, S_sagyou)
                         \/ includes(activity, S_programming)
                         \/ includes(activity, S_bunsho)))
  IN IF prolongedWork > 3
     THEN <<suggestion("health_reminder", "medium", percent(60), percent(90),
                       <<>>, <<>>, t)>>
     ELSE <<>>

generateCreativeSuggestions(context, t) ==
  IF context.cognitiveState = "creative"
  THEN <<suggestion("creative_inspiration", "medium", percent(70), percent(60),
                    <<>>, <<>>, t)>>
  ELSE <<>>

priorityBonus(priority) ==
  CASE priority = "urgent" -> percent(30)
    [] priority = "high" -> percent(20)
    [] priority = "medium" -> percent(10)
    [] OTHER -> 0

calculateContextRelevance(s, profile, context) ==
  min2(FullConfidence,
    (IF /\ s.type = "learning_optimization"
        /\ profile # <<>>
        /\ \E i \in 1..Len(profile[1].optimalTimeSlots) :
              profile[1].optimalTimeSlots[i] = context.timeOfDay
     THEN percent(30) ELSE 0)
    + (IF s.type = "creative_inspiration" /\ context.cognitiveState = "creative"
       THEN percent(40) ELSE 0)
    + (IF s.type = "productivity_boost" /\ context.cognitiveState = "focused"
       THEN percent(30) ELSE 0)
    + (IF s.type = "health_reminder" /\ context.workload = "heavy"
       THEN percent(20) ELSE 0))

\* max(0, 1 - 0.2 * the suggestions of the type the history holds from the
\* last 24 hours)
calculateFreshness(s, suggestionHistory, t) ==
  LET recentSimilar == Len(SelectSeq(suggestionHistory, LAMBDA h :
                         h.type = s.type /\ t - h.createdAt < oneDayMs))
  IN max2(0, FullConfidence - recentSimilar * percent(20))

\* the score in units of 1e-9, the five terms weighted 0.4, 0.3, 1, 0.1, 0.1;
\* the highest scores first, the first `limit` of them
rankAndFilterSuggestions(suggestions, profile, suggestionHistory, context, limit, t) ==
  LET scoredSuggestions ==
        [i \in 1..Len(suggestions) |->
           LET freshness == calculateFreshness(suggestions[i], suggestionHistory, t)
           IN [suggestion |-> suggestions[i], freshness |-> freshness,
               score |-> suggestions[i].estimatedImpact * 4
                           + suggestions[i].confidence * 3
                           + priorityBonus(suggestions[i].priority) * 10
                           + calculateContextRelevance(suggestions[i], profile, context)
                           + freshness]]
      sorted == stableSort(scoredSuggestions, "score")
  IN SubSeq(sorted, 1, min2(limit, Len(sorted)))

\* the context the hook builds from the clock, and the overrides of a caller
contextOf(t, override) ==
  [timeOfDay |-> getHours(t),
   cognitiveState |-> IF "cognitiveState" \in DOMAIN override
                      THEN override.cognitiveState
                      ELSE inferCognitiveState(getHours(t)),
   workload |-> IF "workload" \in DOMAIN override THEN override.workload ELSE "light",
   recentActivity |-> IF "recentActivity" \in DOMAIN override
                      THEN override.recentActivity ELSE <<>>]

ContextOverrides ==
  { [c \in {} |-> <<>>],
    [cognitiveState |-> "creative"],
    [workload |-> "heavy",
     recentActivity |-> <<S_sagyou, S_sagyou, S_bunsho, S_sagyou>>] }

\* generateAdvancedSuggestions of the hook: the service updates goals,
\* patterns and the learning profile from the store (two searches), runs
\* the six generators, ranks, and the hook keeps the first eight
GenerateAdvancedSuggestions(override) ==
  LET context == contextOf(now, override)
      goalMemories == searchMemories(searchCache, Index, longTermMemory,
                                     S_goalQuery, GoalMemoriesLimit, NoFilters, now)
      cached == cacheAfterSearch(searchCache, Index, longTermMemory,
                                 S_goalQuery, GoalMemoriesLimit, NoFilters, now)
      learningMemories == searchMemories(cached, Index, longTermMemory, S_learningQuery,
                                         LearningMemoriesLimit, NoFilters, now)
      goals == updateGoals(hook.goals, goalMemories, hook.serviceIds, now)
      patterns == updateBehaviorPatterns(hook.patterns, behaviorPatterns)
      profile == <<analyzeLearningProfile(learningMemories)>>
      suggestions ==
        generateGoalProgressSuggestions(goals, now)
          \o generateLearningOptimizationSuggestions(profile, context, now)
          \o generateProductivitySuggestions(patterns, context, now)
          \o generatePatternBasedSuggestions(patterns, context, now)
          \o generateHealthSuggestions(context, now)
          \o generateCreativeSuggestions(context, now)
      ranked == rankAndFilterSuggestions(suggestions, profile, hook.suggestionHistory,
                                         context, SuggestionLimit, now)
      returned == [i \in 1..Len(ranked) |-> ranked[i].suggestion]
  IN /\ Begin(Op("generateAdvancedSuggestions"))
     /\ hook' = [hook EXCEPT
                   !.goals = goals,
                   !.serviceIds = @ + Len(goals) - Len(hook.goals),
                   !.patterns = patterns,
                   !.learningProfile = profile,
                   !.candidates = suggestions,
                   !.ranked = ranked,
                   !.advancedSuggestions = returned,
                   !.generated = Append(@, [at |-> now, suggestions |-> returned])]
     /\ searchCache' = cacheAfterSearch(cached, Index, longTermMemory, S_learningQuery,
                                        LearningMemoriesLimit, NoFilters, now)
     /\ ret' = NoReturn
     /\ UNCHANGED <<longTermMemory, actionHistory, appUsageStats, behaviorPatterns,
                    searchIndex, tagIndex, exported, now, nextId, removed, frame>>

S_goal_ab == S_goal \o <<" ">> \o S_ab
S_learning == <<"l", "e", "a", "r", "n", "i", "n", "g">>
S_ab_or_cd == S_ab \o <<" ", "o", "r", " ">> \o S_cd

\* store files of earlier runs: a memory that names a goal, a memory about
\* learning, and one the goal search finds by its "or"
SuggestStores ==
  { <<filedMemory(41, S_ab, S_goal_ab, 5, 1)>>,
    <<filedMemory(41, S_ab, S_goal_ab, 5, 1), filedMemory(42, S_cd, S_learning, 5, 1)>>,
    <<filedMemory(43, S_cd, S_ab_or_cd, 5, 1), filedMemory(42, S_cd, S_learning, 5, 1)>> }

InitSuggest ==
  /\ longTermMemory \in SuggestStores
  /\ searchIndex = buildSearchIndex(EmptyIndex, longTermMemory).searchIndex
  /\ tagIndex = buildSearchIndex(EmptyIndex, longTermMemory).tagIndex
  /\ actionHistory = <<>>
  /\ appUsageStats = EmptyMap
  /\ behaviorPatterns \in {<<>>, <<PersistedPattern>>}
  /\ searchCache = EmptyMap
  /\ exported = DefaultDocument
  /\ now = 1
  /\ nextId = 1
  /\ steps = 0
  /\ lastOp = Op("constructor")
  /\ ret = NoReturn
  /\ removed = <<>>
  /\ frame = IdleFrame
  /\ hook = NoHook(<<>>)

NextSuggest ==
  \/ Tick
  \/ HourPasses
  \/ \E override \in ContextOverrides : GenerateAdvancedSuggestions(override)

\* the suggestion service over a store with memories and a pattern
SpecSuggest == InitSuggest /\ [][NextSuggest]_vars

\* ------------------------------------------------ the handlers, statement-wise
\* The mutations as the statements they execute on the index, the store and
\* the cache, in source order:
\*   "add"     addToSearchIndex of frame.new
\*   "remove"  removeFromSearchIndex of frame.old
\*   "set"     store.set("longTermMemory", frame.memories)
\*   "rebuild" buildSearchIndex()
\*   "clear"   clearSearchCache()
Enter(op, ok, todo, old, new, memories) ==
  /\ Begin(op)
  /\ ret' = Returned(ok)
  /\ frame' = [todo |-> todo, old |-> old, new |-> new, memories |-> memories]
  /\ UNCHANGED hook

Step ==
  LET statement == Head(frame.todo)
      I == CASE statement = "add" -> addMemories(Index, frame.new)
             [] statement = "remove" -> removeMemories(Index, frame.old)
             [] statement = "rebuild" -> buildSearchIndex(Index, longTermMemory)
             [] OTHER -> Index
  IN /\ frame.todo # <<>>
     /\ frame' = [frame EXCEPT !.todo = Tail(@)]
     /\ searchIndex' = I.searchIndex
     /\ tagIndex' = I.tagIndex
     /\ longTermMemory' = IF statement = "set" THEN frame.memories ELSE longTermMemory
     /\ searchCache' = IF statement = "clear" THEN clearSearchCache(searchCache)
                       ELSE searchCache
     /\ UNCHANGED <<actionHistory, appUsageStats, behaviorPatterns, exported, now,
                    nextId, steps, lastOp, ret, removed, hook>>

SaveMemorySteps(fields) ==
  LET entry == newEntry(fields, nextId, now)
      memories == Append(longTermMemory, entry)
      gone == evictedBySave(memories, maxMemoryEntries)
  IN /\ nextId <= MaxIds
     /\ Enter([Op("saveMemory") EXCEPT !.id = nextId], TRUE,
              <<"add", "remove", "set", "clear">>, gone, <<entry>>,
              keptBySave(memories, maxMemoryEntries))
     /\ nextId' = nextId + 1
     /\ removed' = gone
     /\ UNCHANGED <<longTermMemory, actionHistory, appUsageStats, behaviorPatterns,
                    searchIndex, tagIndex, searchCache, exported, now>>

UpdateMemorySteps(id, updates) ==
  LET memoryIndex == findIndex(longTermMemory, id)
      oldMemory == longTermMemory[memoryIndex]
      newMemory == spread(oldMemory, updates, now)
  IN /\ IF memoryIndex = 0
        THEN Enter([Op("updateMemory") EXCEPT !.id = id], FALSE, <<>>, <<>>, <<>>, <<>>)
        ELSE Enter([Op("updateMemory") EXCEPT !.id = id], TRUE,
                   <<"remove", "add", "set", "clear">>, <<oldMemory>>, <<newMemory>>,
                   [longTermMemory EXCEPT ![memoryIndex] = newMemory])
     /\ UNCHANGED <<longTermMemory, actionHistory, appUsageStats, behaviorPatterns,
                    searchIndex, tagIndex, searchCache, exported, now, nextId, removed>>

DeleteMemorySteps(id) ==
  LET memoryIndex == findIndex(longTermMemory, id)
  IN /\ IF memoryIndex = 0
        THEN Enter([Op("deleteMemory") EXCEPT !.id = id], FALSE, <<>>, <<>>, <<>>, <<>>)
        ELSE Enter([Op("deleteMemory") EXCEPT !.id = id], TRUE,
                   <<"remove", "set", "clear">>, <<longTermMemory[memoryIndex]>>, <<>>,
                   splice1(longTermMemory, memoryIndex))
     /\ UNCHANGED <<longTermMemory, actionHistory, appUsageStats, behaviorPatterns,
                    searchIndex, tagIndex, searchCache, exported, now, nextId, removed>>

MergeTagsSteps(oldTag, newTag) ==
  LET memories == [i \in 1..Len(longTermMemory) |->
                     mergedMemory(longTermMemory[i], oldTag, newTag, now)]
      updated == \E i \in 1..Len(longTermMemory) :
                    findTag(longTermMemory[i].tags, oldTag) # 0
  IN /\ Enter(Op("mergeTags"), updated,
              IF updated THEN <<"set", "rebuild", "clear">> ELSE <<>>,
              <<>>, <<>>, memories)
     /\ UNCHANGED <<longTermMemory, actionHistory, appUsageStats, behaviorPatterns,
                    searchIndex, tagIndex, searchCache, exported, now, nextId, removed>>

RemoveTagSteps(tagToRemove) ==
  LET memories == [i \in 1..Len(longTermMemory) |->
                     withoutTag(longTermMemory[i], tagToRemove, now)]
      updated == \E i \in 1..Len(longTermMemory) :
                    Len(memories[i].tags) # Len(longTermMemory[i].tags)
  IN /\ Enter(Op("removeTag"), updated,
              IF updated THEN <<"set", "rebuild", "clear">> ELSE <<>>,
              <<>>, <<>>, memories)
     /\ UNCHANGED <<longTermMemory, actionHistory, appUsageStats, behaviorPatterns,
                    searchIndex, tagIndex, searchCache, exported, now, nextId, removed>>

NextSteps ==
  \/ Tick
  \/ Step
  \/ \E fields \in SaveInputs : SaveMemorySteps(fields)
  \/ \E id \in 0..MaxIds, u \in UpdateInputs : UpdateMemorySteps(id, u)
  \/ \E id \in 0..MaxIds : DeleteMemorySteps(id)
  \/ \E o \in TagInputs, n \in TagInputs : MergeTagsSteps(o, n)
  \/ \E t \in TagInputs : RemoveTagSteps(t)
  \/ \E s \in SearchInputs : SearchMemories(s[1], s[2], s[3])
  \/ GetAllTags
  \/ GetMemoryStats
  \/ Cleanup

\* the handlers and the timer callback as tasks of the one event loop
SpecSteps == Init /\ [][NextSteps]_vars

\* =================================================================== claims
\* The linear scan of C1: no index, the filters of searchMemories and the
\* match rule performIndexedSearch scores with (the query token is contained
\* in the lower-cased title, content or a tag).
scanMatches(memory, queryWords) ==
  \E i \in 1..Len(queryWords) :
     \/ includes(toLowerCase(memory.title), queryWords[i])
     \/ includes(toLowerCase(memory.content), queryWords[i])
     \/ \E t \in 1..Len(memory.tags) :
          includes(toLowerCase(memory.tags[t]), queryWords[i])

linearScan(memories, query, f) ==
  LET queryLower == trim(toLowerCase(query))
  IN IF queryLower = <<>> THEN applyFilters(memories, f)
     ELSE SelectSeq(applyFilters(memories, f),
                    LAMBDA m : scanMatches(m, tokens(queryLower)))

\* C1: for every query and filter set, the indexed lexical search returns the
\* same set of Memories as the linear scan with the same filters and the same
\* per-token title/content/tag match rule.
C1_IndexScanEquivalence ==
  \A q \in Queries, f \in Filters :
     Range(Ids(searchMemories(searchCache, Index, longTermMemory, q, NoLimit, f, now)))
       = Range(Ids(linearScan(longTermMemory, q, f)))

\* two Maps of Sets hold the same entries
sameEntries(m1, m2) ==
  /\ DOMAIN m1 = DOMAIN m2
  /\ \A k \in DOMAIN m1 : Range(m1[k]) = Range(m2[k])

\* a Map of Sets: no key maps to an empty Set, no Set holds an id twice
wellFormed(m) ==
  \A k \in DOMAIN m : m[k] # <<>> /\ Cardinality(Range(m[k])) = Len(m[k])

\* C2: in every reachable state the word index and the tag index hold exactly
\* the entries a full rebuild from the stored Memories produces, and no key
\* maps to an empty set.
C2_IndexMatchesStore ==
  LET rebuilt == addMemories(EmptyIndex, longTermMemory)
  IN /\ sameEntries(searchIndex, rebuilt.searchIndex)
     /\ sameEntries(tagIndex, rebuilt.tagIndex)
     /\ wellFormed(searchIndex)
     /\ wellFormed(tagIndex)

\* a save that evicted a record while another record keeps a positive key
C2_Witness ==
  /\ lastOp.op = "saveMemory"
  /\ removed # <<>>
  /\ DOMAIN tagIndex # {}
  /\ \E i \in 1..Len(longTermMemory) : evictionKey(longTermMemory[i]) > 0

\* C3: after saveMemory at most maxMemoryEntries Memories are stored, and every
\* evicted record has an eviction key not above the key of any record kept.
C3_EvictsLowestFirst ==
  lastOp.op = "saveMemory" =>
    /\ Len(longTermMemory) <= maxMemoryEntries
    /\ \A e \in Range(removed), r \in Range(longTermMemory) :
          evictionKey(e) <= evictionKey(r)

\* a save evicted a record although the store holds records of different keys
C3_Witness ==
  /\ lastOp.op = "saveMemory"
  /\ removed # <<>>
  /\ \E r \in Range(longTermMemory), e \in Range(removed) :
        evictionKey(e) < evictionKey(r)

\* a handler was called in this step
Called == steps' = steps + 1

stored(memories, id) == lastWithId(memories, id)

\* C4: every Memory in the page searchMemories returns has, in the store, an
\* accessCount one higher than before the call and lastAccessed refreshed,
\* with updatedAt as it was.
C4_SearchCountsAccess ==
  [][(Called /\ lastOp'.op = "searchMemories") =>
       \A i \in 1..Len(ret'.results) :
          LET id == ret'.results[i].id
          IN /\ hasId(longTermMemory', id)
             /\ stored(longTermMemory', id).accessCount
                  = stored(longTermMemory, id).accessCount + 1
             /\ stored(longTermMemory', id).lastAccessed = now
             /\ stored(longTermMemory', id).updatedAt
                  = stored(longTermMemory, id).updatedAt]_vars

MemoryMutations ==
  {"saveMemory", "updateMemory", "deleteMemory", "mergeTags", "removeTag",
   "importUserData"}

\* C5: the search cache is empty right after every mutating operation that
\* succeeded, recordAction among them.
C5_CacheEmptyAfterEveryMutation ==
  (lastOp.op \in MemoryMutations \cup {"recordAction"} /\ ret.ok)
     => searchCache = EmptyMap

\* C5 as amended: the cache is empty right after every operation that changed
\* the stored Memories; recordAction leaves the cache as it was.
C5_CacheEmptyAfterMemoryMutation ==
  [][Called =>
       /\ (lastOp'.op \in MemoryMutations /\ ret'.ok) => searchCache' = EmptyMap
       /\ lastOp'.op = "recordAction" => searchCache' = searchCache]_vars

\* an action was recorded and the cache still holds a page
C5_Witness == lastOp.op = "recordAction" /\ DOMAIN searchCache # {}

\* C6: updateMemory and deleteMemory with an id no stored Memory has return
\* false and leave the Memories, both indexes and the cache unchanged.
C6_UnknownIdIsNoOp ==
  [][(Called /\ lastOp'.op \in {"updateMemory", "deleteMemory"}
        /\ ~hasId(longTermMemory, lastOp'.id)) =>
       /\ ret'.ok = FALSE
       /\ UNCHANGED <<longTermMemory, searchIndex, tagIndex, searchCache>>]_vars

\* an unknown id was given while Memories were stored and a page was cached
C6_Witness ==
  /\ lastOp.op \in {"updateMemory", "deleteMemory"}
  /\ ~ret.ok
  /\ longTermMemory # <<>>
  /\ DOMAIN searchCache # {}

UniqueIds(memories) ==
  \A i, j \in 1..Len(memories) : memories[i].id = memories[j].id => i = j

\* C8: no two stored Memories share an id, and updateMemory, mergeTags,
\* removeTag and searchMemories leave id and createdAt of every record alone.
C8_IdImmutableAndUnique ==
  [][/\ UniqueIds(longTermMemory')
     /\ (Called /\ lastOp'.op \in {"updateMemory", "mergeTags", "removeTag",
                                    "searchMemories"}) =>
          /\ Len(longTermMemory') = Len(longTermMemory)
          /\ \A i \in 1..Len(longTermMemory) :
                /\ longTermMemory'[i].id = longTermMemory[i].id
                /\ longTermMemory'[i].createdAt = longTermMemory[i].createdAt]_vars

\* C9: an empty engine that imports the export of this engine holds the same
\* Memories and index entries and answers every query with the same ordered
\* list of ids.
C9_ExportImportRoundTrip ==
  LET copy == importUserData(EmptyEngine, exportUserData(Engine))
  IN /\ copy.document.longTermMemory = longTermMemory
     /\ sameEntries(copy.index.searchIndex, searchIndex)
     /\ sameEntries(copy.index.tagIndex, tagIndex)
     /\ \A q \in Queries, l \in Limits, f \in Filters :
          Ids(searchMemories(copy.cache, copy.index, copy.document.longTermMemory,
                             q, l, f, now))
            = Ids(searchMemories(searchCache, Index, longTermMemory, q, l, f, now))

\* C10: buildSearchIndex leaves the stored Memories alone and a second run
\* right after it yields the index the first run left.
C10_RebuildIdempotent ==
  [][(Called /\ lastOp'.op = "buildSearchIndex") =>
       /\ longTermMemory' = longTermMemory
       /\ buildSearchIndex([searchIndex |-> searchIndex', tagIndex |-> tagIndex'],
                           longTermMemory')
            = [searchIndex |-> searchIndex', tagIndex |-> tagIndex']]_vars

\* buildSearchIndex ran twice in a row over stored Memories
C10_Witness ==
  /\ lastOp.op = "buildSearchIndex"
  /\ lastOp.id = 2
  /\ DOMAIN searchIndex # {}
  /\ DOMAIN tagIndex # {}

QueryOps == {"searchMemories", "getAllTags", "getMemoryStats"}

\* C7: a query never runs between the statements of a mutation: whenever
\* searchMemories, getAllTags or getMemoryStats starts, no handler is under
\* way and the index holds exactly the entries of the stored Memories.
C7_QueriesSeeWholeMutations ==
  [][(Called /\ lastOp'.op \in QueryOps) =>
       /\ frame.todo = <<>>
       /\ C2_IndexMatchesStore]_vars

\* a mutation is under way and the index differs from the stored Memories
C7_Witness == frame.todo # <<>> /\ ~C2_IndexMatchesStore

\* C11: after every recordAction the history holds at most maxHistoryEntries
\* entries: the entry just recorded at the end and, before it, the most
\* recent earlier entries in their order (the oldest are the ones dropped).
C11_HistoryIsFifoCapped ==
  [][(Called /\ lastOp'.op = "recordAction") =>
       LET n == Len(actionHistory')
           kept == n - 1
       IN /\ n <= maxHistoryEntries
          /\ n = IF Len(actionHistory) + 1 > maxHistoryEntries
                 THEN maxHistoryEntries ELSE Len(actionHistory) + 1
          /\ actionHistory'[n].id = lastOp'.id
          /\ actionHistory'[n].timestamp = now
          /\ \A i \in 1..kept :
               actionHistory'[i] = actionHistory[Len(actionHistory) - kept + i]]_vars

\* the history is full and its oldest recorded entry has been dropped
C11_Witness ==
  /\ lastOp.op = "recordAction"
  /\ Len(actionHistory) = maxHistoryEntries
  /\ actionHistory[1].id > 1

\* C12: automatic organization starts at most once in any 24 hours: any two
\* starts of performAutoOrganization by the periodic check are at least a day
\* apart.
C12_OrganizesOncePerDay ==
  \A i, j \in 1..Len(hook.started) :
     i < j => hook.started[j] - hook.started[i] >= oneDayMs

called(c) == Len(hook.calls) >= c
resolved(c) == called(c) /\ hook.calls[c].status = "resolved"

\* C13: every call of the debounced searchMemories eventually resolves.
C13_EverySearchResolves ==
  \A c \in 1..MaxCalls : [](called(c) => <>resolved(c))

\* the application accounts for more than half of the entries of the hourly
\* slot that name an application
dominates(history, hour, app) ==
  LET inSlot == {i \in 1..Len(history) :
                   /\ history[i].applicationName # <<>>
                   /\ getHours(history[i].timestamp) = hour}
  IN 2 * Cardinality({i \in inSlot : history[i].applicationName = app})
       > Cardinality(inSlot)

patternsWithId(patterns, id) == {i \in 1..Len(patterns) : patterns[i].id = id}
thePattern(patterns, id) == patterns[CHOOSE i \in patternsWithId(patterns, id) : TRUE]

timeAppId(hour, app) == [kind |-> "time-app", slot |-> hour, key |-> app]

\* C14: a detector run that finds an application dominating an hourly slot
\* leaves exactly one pattern for that slot and application: a new one has
\* frequency 1 and confidence 0.5; one that existed has its frequency raised
\* by exactly 1 and its confidence set to min(confidence*1.1, 1), which is
\* higher than before unless it was 1.0 already; no confidence exceeds 1.0.
C14_TimeSlotReinforcement ==
  [][(Called /\ lastOp'.op = "recordAction") =>
       /\ \A i \in 1..Len(behaviorPatterns') :
            behaviorPatterns'[i].confidence <= FullConfidence
       /\ \A e \in 1..Len(actionHistory') :
            LET hour == getHours(actionHistory'[e].timestamp)
                app == actionHistory'[e].applicationName
                id == timeAppId(hour, app)
                old == thePattern(behaviorPatterns, id)
                new == thePattern(behaviorPatterns', id)
            IN (app # <<>> /\ dominates(actionHistory', hour, app)) =>
                 /\ Cardinality(patternsWithId(behaviorPatterns', id)) = 1
                 /\ IF patternsWithId(behaviorPatterns, id) = {}
                    THEN /\ new.frequency = 1
                         /\ new.confidence * 2 = FullConfidence
                    ELSE /\ new.frequency = old.frequency + 1
                         /\ IF old.confidence * 11 <= FullConfidence * 10
                            THEN new.confidence * 10 = old.confidence * 11
                            ELSE new.confidence = FullConfidence
                         /\ old.confidence < FullConfidence =>
                              new.confidence > old.confidence]_vars

\* three detecting runs have created a pattern and reinforced it twice:
\* frequency 3, confidence 0.5 * 1.1 * 1.1
C14_Witness ==
  \E i \in 1..Len(behaviorPatterns) :
     /\ behaviorPatterns[i].id.kind = "time-app"
     /\ behaviorPatterns[i].frequency = 3
     /\ behaviorPatterns[i].confidence = (FullConfidence \div 1000) * 605

\* the positions in the history where three consecutive entries all name an
\* application
fullTriples(history) ==
  {i \in 1..(Len(history) - sequenceLength + 1) :
     \A k \in 0..(sequenceLength - 1) : history[i + k].applicationName # <<>>}

sameTriple(history, i, j) ==
  \A k \in 0..(sequenceLength - 1) :
     history[i + k].applicationName = history[j + k].applicationName

occurrences(history, i) ==
  Cardinality({j \in fullTriples(history) : sameTriple(history, i, j)})

appSeqId(history, i) == [kind |-> "app-seq", slot |-> 0, key |-> sequenceKey(history, i)]

\* C15: when a sequence of three consecutive non-blank application names
\* occurs more than once among the recent actions, the detector run leaves a
\* sequence pattern for it: a new one with confidence 0.5 and the observed
\* count as frequency, an existing one with the count added to its frequency
\* and its confidence raised to min(confidence*1.1, 1).
C15_SequenceMining ==
  [][(Called /\ lastOp'.op = "recordAction") =>
       \A i \in fullTriples(actionHistory') :
          LET n == occurrences(actionHistory', i)
              id == appSeqId(actionHistory', i)
              old == thePattern(behaviorPatterns, id)
              new == thePattern(behaviorPatterns', id)
          IN n > 1 =>
               /\ patternsWithId(behaviorPatterns', id) # {}
               /\ IF patternsWithId(behaviorPatterns, id) = {}
                  THEN /\ new.frequency = n
                       /\ new.confidence * 2 = FullConfidence
                  ELSE /\ new.frequency = old.frequency + n
                       /\ IF old.confidence * 11 <= FullConfidence * 10
                          THEN new.confidence * 10 = old.confidence * 11
                          ELSE new.confidence = FullConfidence]_vars

\* organizeMemories has run on the store
organized == lastOp.op = "searchMemories"
duplicates == hook.organizationInsights.duplicates
clusters == hook.organizationInsights.clusters
memoryOf(id) == CHOOSE m \in Range(longTermMemory) : m.id = id

\* the pairs of different stored memories
storedPairs ==
  {p \in Range(longTermMemory) \X Range(longTermMemory) : p[1].id # p[2].id}

\* the pair is among the duplicates, in either order, with this action
reported(memory1, memory2, action) ==
  \E k \in 1..Len(duplicates) :
     /\ {duplicates[k].memory1, duplicates[k].memory2} = {memory1.id, memory2.id}
     /\ duplicates[k].suggestedAction = action

C17_IdenticalContentIsDuplicate ==
  organized =>
    \A p \in storedPairs :
       p[1].content = p[2].content =>
         \E k \in 1..Len(duplicates) :
            /\ {duplicates[k].memory1, duplicates[k].memory2} = {p[1].id, p[2].id}
            /\ duplicates[k].similarity >= 950
            /\ duplicates[k].suggestedAction = "merge"

\* C18 as stated: the pair "quarterly budget plan" / "quarterly budget plan
\* revision" is reported with keep_both, and every reported pair whose
\* similarity is above 0.8 and not above 0.95 gets keep_both.
C18_HighSimilarityKeepsBoth ==
  organized =>
    /\ \A p \in storedPairs :
          p[1].content = S_plan /\ p[2].content = S_planRevision =>
            reported(p[1], p[2], "keep_both")
    /\ \A k \in 1..Len(duplicates) :
          duplicates[k].similarity > 800 /\ duplicates[k].similarity <= 950 =>
            duplicates[k].suggestedAction = "keep_both"

\* one content is part of the other
contains(memory1, memory2) ==
  includes(memory1.content, memory2.content) \/ includes(memory2.content, memory1.content)

\* the second memory is the newer one and more than 1.5 times as long
newerAndLonger(memory1, memory2) ==
  /\ memory2.createdAt > memory1.createdAt
  /\ 2 * Len(memory2.content) > 3 * Len(memory1.content)

\* C18, amended: the pair "quarterly budget plan" / "quarterly budget plan
\* revision" is reported with merge, the one content being part of the other;
\* a reported pair whose similarity is above 0.8 and not above 0.95 gets merge
\* when one content is part of the other, else archive_older when the second
\* memory is newer and more than 1.5 times as long, and keep_both otherwise.
C18_MergeActionRule ==
  organized =>
    /\ \A p \in storedPairs :
          p[1].content = S_plan /\ p[2].content = S_planRevision =>
            reported(p[1], p[2], "merge")
    /\ \A k \in 1..Len(duplicates) :
          LET memory1 == memoryOf(duplicates[k].memory1)
              memory2 == memoryOf(duplicates[k].memory2)
          IN duplicates[k].similarity > 800 /\ duplicates[k].similarity <= 950 =>
               duplicates[k].suggestedAction =
                 IF contains(memory1, memory2) THEN "merge"
                 ELSE IF newerAndLonger(memory1, memory2) THEN "archive_older"
                 ELSE "keep_both"

\* the plan and its revision are reported with merge next to a pair that is
\* kept, both of its memories
C18_Witness ==
  /\ organized
  /\ \E p \in storedPairs :
        /\ p[1].content = S_plan /\ p[2].content = S_planRevision
        /\ reported(p[1], p[2], "merge")
  /\ \E k \in 1..Len(duplicates) :
        /\ duplicates[k].similarity > 800 /\ duplicates[k].similarity <= 950
        /\ duplicates[k].suggestedAction = "keep_both"

\* a required field of the object is empty or missing
emptyRequired(fields) ==
  \/ "tags" \notin DOMAIN fields
  \/ fields.title = <<>>
  \/ fields.content = <<>>

\* the call saveMemory(fields)
savesMemory(fields) ==
  IF "tags" \in DOMAIN fields THEN SaveMemory(fields) ELSE SaveMemoryWithoutTags(fields)

\* C19: saveMemory called with an empty or missing title, content or tags
\* does not throw, reports failure, stores no record and leaves the stored
\* memories, the word index and the tag index unchanged.
C19_SaveRejectsEmptyFields ==
  [][\A fields \in SaveInputs \cup ExternalSaveInputs :
       emptyRequired(fields) /\ savesMemory(fields) =>
         /\ ~ret'.threw
         /\ ~ret'.ok
         /\ longTermMemory' = longTermMemory
         /\ searchIndex' = searchIndex
         /\ tagIndex' = tagIndex]_vars

\* a dateRange filter whose start is after its end
inverted(f) == f.dateRange.has /\ f.dateRange.start > f.dateRange.end

\* C20: a search whose dateRange has start greater than end returns an empty
\* list, whatever the query, the other filters and the store are, does not
\* raise, and leaves the store and the indexes unchanged.
C20_InvertedDateRangeIsEmpty ==
  [][\A s \in SearchInputs :
       inverted(s[3]) /\ SearchMemories(s[1], s[2], s[3]) =>
         /\ ret'.results = <<>>
         /\ ~ret'.threw
         /\ longTermMemory' = longTermMemory
         /\ searchIndex' = searchIndex
         /\ tagIndex' = tagIndex]_vars

\* such a search has just returned nothing from a store holding a memory
\* that lies between the two ends of its range
C20_Witness ==
  /\ lastOp.op = "searchMemories"
  /\ ret.results = <<>>
  /\ \E k \in DOMAIN searchCache :
        /\ inverted(k.filters)
        /\ searchCache[k].timestamp = now
        /\ searchCache[k].results = <<>>
        /\ \E i \in 1..Len(longTermMemory) :
              /\ longTermMemory[i].createdAt >= k.filters.dateRange.end
              /\ longTermMemory[i].createdAt <= k.filters.dateRange.start

\* the word is a token of the text: a piece between separators, longer than
\* one character
isToken(word, text, separators) ==
  /\ Len(word) > 1
  /\ \A k \in 1..Len(word) : word[k] \notin separators
  /\ \E i \in 1..(Len(text) - Len(word) + 1) :
        /\ SubSeq(text, i, i + Len(word) - 1) = word
        /\ i = 1 \/ text[i - 1] \in separators
        /\ i + Len(word) > Len(text) \/ text[i + Len(word)] \in separators

\* C21: a Memory whose title or content holds a word of more than one kanji
\* as a token between blanks is returned by the lexical search for that word.
C21_KanjiWordIsFound ==
  [][SearchMemories(S_kanji, 10, NoFilters) =>
       \A i \in 1..Len(longTermMemory) :
          (\/ isToken(S_kanji, longTermMemory[i].title, {" "})
           \/ isToken(S_kanji, longTermMemory[i].content, {" "}))
            => longTermMemory[i].id \in Range(Ids(ret'.results))]_vars

\* base match score * relevanceScore * (1 + accessCount * 0.1), times 10, of
\* a stored memory for a query
composite(memory, query) ==
  lexicalScore(memory, tokens(trim(toLowerCase(query)))) * accessWeighted(memory)

\* C22: with sortBy absent the page of a lexical search is in descending
\* order of base match score * relevanceScore * (1 + accessCount*0.1) *
\* recency decay; stated for the memories of a page that were last accessed
\* at the same time, whose decay factors are equal.
C22_OrderedByCompositeScore ==
  [][\A s \in FiledSearchInputs :
       SearchMemories(s[1], s[2], s[3]) =>
         \A i, j \in 1..Len(ret'.results) :
            LET a == stored(longTermMemory, ret'.results[i].id)
                b == stored(longTermMemory, ret'.results[j].id)
            IN (i < j /\ a.lastAccessed = b.lastAccessed) =>
                 composite(a, s[1]) >= composite(b, s[1])]_vars

\* C27: right after saveMemory returns, whatever the store held before, a
\* full store included, the new record is among the stored memories and its
\* id is in the index under its words and its tags.
C27_SavedMemoryIsStored ==
  [][(Called /\ lastOp'.op = "saveMemory") =>
       /\ hasId(longTermMemory', lastOp'.id)
       /\ LET entry == stored(longTermMemory', lastOp'.id)
          IN /\ \A w \in Range(memoryWords(entry)) :
                   w \in DOMAIN searchIndex' /\ entry.id \in Range(searchIndex'[w])
             /\ \A t \in Range(normalizedTags(entry)) :
                   t \in DOMAIN tagIndex' /\ entry.id \in Range(tagIndex'[t])]_vars

\* C23: a performAutoOrganization run changes the store only by the merges
\* and the archivals it counts, and the merged and archived counts it returns
\* are the numbers of merges and archivals applied to the stored memories:
\* a run that leaves the stored memories as they were returns 0 for both.
C23_CountsAreApplied ==
  [][(Called /\ lastOp'.op = "performAutoOrganization") =>
       /\ Len(longTermMemory) - Len(longTermMemory') <=
            hook'.organizationResult.merged + hook'.organizationResult.archived
       /\ longTermMemory' = longTermMemory =>
            /\ hook'.organizationResult.merged = 0
            /\ hook'.organizationResult.archived = 0]_vars

\* a tag of the memory equals the tag when case is ignored
carries(memory, tag) ==
  \E i \in 1..Len(memory.tags) : toLowerCase(memory.tags[i]) = toLowerCase(tag)

\* C29: after mergeTags(oldTag, newTag) with tags that differ when case is
\* ignored, no stored memory has a tag equal to oldTag ignoring case, the
\* tag list getAllTags returns has no entry for the lower-cased oldTag, and
\* the memories that did not carry oldTag are as they were.
C29_MergedTagIsGone ==
  [][\A oldTag \in TagInputs, newTag \in TagInputs :
       (MergeTags(oldTag, newTag) /\ toLowerCase(oldTag) # toLowerCase(newTag)) =>
         /\ \A i \in 1..Len(longTermMemory') : ~carries(longTermMemory'[i], oldTag)
         /\ toLowerCase(oldTag) \notin
              DOMAIN getAllTags([searchIndex |-> searchIndex', tagIndex |-> tagIndex'])
         /\ Len(longTermMemory') = Len(longTermMemory)
         /\ \A i \in 1..Len(longTermMemory) :
              ~carries(longTermMemory[i], oldTag) =>
                 longTermMemory'[i] = longTermMemory[i]]_vars

\* older and younger than the retention window at the time of the cleanup
olderThanWindow(stamp) == now - stamp > retentionTicks
youngerThanWindow(stamp) == now - stamp < retentionTicks

\* C26: after a cleanup run no action entry with a timestamp older than the
\* retention window and no pattern with a lastOccurred older than it
\* remains, the younger entries and patterns are kept in their order, and
\* the stored memories, both indexes and the search cache are unchanged.
C26_CleanupPurgesOnlyTheOld ==
  [][(Called /\ lastOp'.op = "cleanup") =>
       /\ \A i \in 1..Len(actionHistory') :
            ~olderThanWindow(actionHistory'[i].timestamp)
       /\ \A i \in 1..Len(behaviorPatterns') :
            ~olderThanWindow(behaviorPatterns'[i].lastOccurred)
       /\ SelectSeq(actionHistory', LAMBDA e : youngerThanWindow(e.timestamp)) =
            SelectSeq(actionHistory, LAMBDA e : youngerThanWindow(e.timestamp))
       /\ SelectSeq(behaviorPatterns', LAMBDA p : youngerThanWindow(p.lastOccurred)) =
            SelectSeq(behaviorPatterns, LAMBDA p : youngerThanWindow(p.lastOccurred))
       /\ UNCHANGED <<longTermMemory, searchIndex, tagIndex, searchCache>>]_vars

\* a cleanup has dropped the two year-old entries and the year-old pattern
\* and kept the recent entries and the recent pattern
C26_Witness ==
  /\ lastOp.op = "cleanup"
  /\ Len(actionHistory) >= 1
  /\ \A i \in 1..Len(actionHistory) : actionHistory[i].id \notin {31, 32}
  /\ \E i \in 1..Len(actionHistory) : actionHistory[i].id = 34
  /\ \E i \in 1..Len(behaviorPatterns) : behaviorPatterns[i].id.slot = 0
  /\ \A i \in 1..Len(behaviorPatterns) : behaviorPatterns[i].id.slot # 23

\* C28: a recordAction call leaves every time-slot pattern of another hourly
\* slot than the recorded action's as it was: same frequency, confidence
\* and lastOccurred.
C28_OtherSlotsUntouched ==
  [][(Called /\ lastOp'.op = "recordAction") =>
       \A i \in 1..Len(behaviorPatterns) :
          (behaviorPatterns[i].id.kind = "time-app"
             /\ behaviorPatterns[i].id.slot # getHours(now)) =>
            /\ i <= Len(behaviorPatterns')
            /\ behaviorPatterns'[i] = behaviorPatterns[i]]_vars

\* a generateAdvancedSuggestions call is the step
Generated == Called /\ lastOp'.op = "generateAdvancedSuggestions"

\* the earlier calls within the last 24 hours that returned a suggestion of
\* the type
returnedRecently(type) ==
  Len(SelectSeq(hook.generated, LAMBDA g :
        /\ now - g.at < oneDayMs
        /\ \E i \in 1..Len(g.suggestions) : g.suggestions[i].type = type))

\* C24: the freshness term that scores a new suggestion is
\* max(0, 1 - 0.2 * k), k the number of earlier generateAdvancedSuggestions
\* calls of the last 24 hours that returned a suggestion of its type.
C24_RepetitionLowersFreshness ==
  [][Generated =>
       \A i \in 1..Len(hook'.ranked) :
          hook'.ranked[i].freshness =
            max2(0, FullConfidence
                      - returnedRecently(hook'.ranked[i].suggestion.type) * percent(20))]_vars

\* C25: when the pattern table holds a time-slot pattern for the current
\* hour with a confidence above 0.7, the candidates generateAdvancedSuggestions
\* builds hold a pattern_insight suggestion that references the pattern.
C25_PatternReachesCandidates ==
  [][Generated =>
       \A i \in 1..Len(behaviorPatterns) :
          (/\ behaviorPatterns[i].id.kind = "time-app"
           /\ behaviorPatterns[i].id.slot = getHours(now)
           /\ behaviorPatterns[i].confidence > percent(70)) =>
            \E j \in 1..Len(hook'.candidates) :
               /\ hook'.candidates[j].type = "pattern_insight"
               /\ \E k \in 1..Len(hook'.candidates[j].relatedPatterns) :
                     hook'.candidates[j].relatedPatterns[k] = behaviorPatterns[i].id]_vars

\* the memories the goals are tracked for
trackedMemories(goals) == [i \in 1..Len(goals) |-> goals[i].relatedMemories]

\* C30: over an unchanged store the service tracks at most as many goals as
\* there are stored memories whose content names a goal, and a later
\* generateAdvancedSuggestions call tracks the same goals as the one before.
C30_GoalsDoNotAccumulate ==
  [][Generated =>
       /\ Len(hook'.goals) <=
            Len(SelectSeq(longTermMemory, LAMBDA memory : mentionsGoal(memory)))
       /\ hook.generated # <<>> =>
            trackedMemories(hook'.goals) = trackedMemories(hook.goals)]_vars

====
